---- MODULE Spec2Model ----
(***************************************************************************)
(* Protection-relay coordination: the trip-time engine                     *)
(* (relay_coordination/core) and the selectivity / coordination-table      *)
(* analysis built on it (relay_coordination/analysis, plotting/tcc.py).    *)
(*                                                                         *)
(* Units.  The source computes with Python floats; the model computes in   *)
(* fixed point over the integers:                                          *)
(*   currents, pickups      amperes                                        *)
(*   times                  microseconds  (0.05 s = 50000)                 *)
(*   tms                    hundredths    (0.3    = 30)                    *)
(*   k, A                   1e-5          (0.14   = 14000)                 *)
(*   B                      1e-6          (0.491  = 491000)                *)
(*   M**alpha, M**p         six to nine decimals (see Decimals)            *)
(*   alpha, p               thousandths   (0.02   = 20)                    *)
(* A Python value that may be None, inf or nan is a record with a kind:    *)
(* "None", "time" (with its microseconds), "inf", "ninf", "nan", or the    *)
(* name of the exception that the call raised.                             *)
(***************************************************************************)
EXTENDS Integers, Sequences, FiniteSets, TLC

VARIABLES net, out

vars == <<net, out>>

----------------------------------------------------------------------------
(* Python values *)

None == <<>>
Some(v) == <<v>>
IsNone(x) == x = <<>>
Get(x) == x[1]

NoTrip == [kind |-> "None", us |-> 0]
Inf == [kind |-> "inf", us |-> 0]
NegInf == [kind |-> "ninf", us |-> 0]
NaN == [kind |-> "nan", us |-> 0]
Time(t) == [kind |-> "time", us |-> t]
Raised(e) == [kind |-> e, us |-> 0]

IsError(v) == v.kind \in {"ValueError", "ZeroDivisionError", "TypeError"}
IsFloat(v) == v.kind \in {"time", "inf", "ninf", "nan"}

\* float + float
FAdd(a, b) ==
    IF a.kind = "nan" \/ b.kind = "nan" THEN NaN
    ELSE IF a.kind = "time" /\ b.kind = "time" THEN Time(a.us + b.us)
    ELSE IF a.kind = "time" THEN b
    ELSE IF b.kind = "time" THEN a
    ELSE IF a.kind = b.kind THEN a
    ELSE NaN

\* float - float
FSub(a, b) ==
    IF a.kind = "nan" \/ b.kind = "nan" THEN NaN
    ELSE IF a.kind = "time" /\ b.kind = "time" THEN Time(a.us - b.us)
    ELSE IF b.kind = "time" THEN a
    ELSE IF a.kind = "time" THEN (IF b.kind = "inf" THEN NegInf ELSE Inf)
    ELSE IF a.kind = b.kind THEN NaN
    ELSE a

\* float < float and float >= float (every comparison with nan is False)
FLt(a, b) ==
    IF a.kind = "nan" \/ b.kind = "nan" THEN FALSE
    ELSE IF a.kind = "time" /\ b.kind = "time" THEN a.us < b.us
    ELSE IF a.kind = b.kind THEN FALSE
    ELSE a.kind = "ninf" \/ b.kind = "inf"

FGe(a, b) ==
    IF a.kind = "nan" \/ b.kind = "nan" THEN FALSE
    ELSE IF a.kind = "time" /\ b.kind = "time" THEN a.us >= b.us
    ELSE IF a.kind = b.kind THEN TRUE
    ELSE a.kind = "inf" \/ b.kind = "ninf"

----------------------------------------------------------------------------
(* Fixed-point arithmetic *)

Scale == 1000 * 1000

\* The one element of a singleton set
Only(S) == CHOOSE x \in S : TRUE

\* One digit of a long division: <<d, r2>> with 10 * r = d * c + r2 and
\* 0 <= r2 < c, for 0 <= r < c, without a product wider than the operands
\* (c is split into its tens c1 and its units c0).
DivStep(r, c) ==
    LET c1 == c \div 10
        c0 == c % 10
        d == CHOOSE d \in 0..9 :
                /\ d * c1 + (d * c0 + 9) \div 10 <= r
                /\ d = 9 \/ (d + 1) * c1 + ((d + 1) * c0 + 9) \div 10 > r
    IN  <<d, 10 * (r - d * c1) - d * c0>>

\* q * 10^digits + floor(r * 10^digits / c), for 0 <= r < c
RECURSIVE LongDiv(_, _, _, _)
LongDiv(q, r, c, digits) ==
    IF digits = 0 THEN q
    ELSE Only({LongDiv(10 * q + s[1], s[2], c, digits - 1) : s \in {DivStep(r, c)}})

\* floor(a * 10^digits / c), for a >= 0 and c > 0
ScaledDiv(a, digits, c) ==
    Only({IF x >= 0 /\ y > 0 THEN LongDiv(x \div y, x % y, y, digits) ELSE 0 :
          x \in {a}, y \in {c}})

\* (current / pickup) ** e for the exponents that are not whole numbers: the
\* value of Python's float power, to nine decimals, over the currents and
\* pickups of this model; keys are <<current, pickup, exponent>>.
FracPow ==
   <<150, 100, 20>> :> 1008142272
   @@ <<200, 100, 20>> :> 1013959480
   @@ <<300, 100, 20>> :> 1022215413
   @@ <<400, 100, 20>> :> 1028113827
   @@ <<800, 100, 20>> :> 1042465761
   @@ <<900, 100, 20>> :> 1044924351
   @@ <<1600, 100, 20>> :> 1057018041
   @@ <<2000, 100, 20>> :> 1061745918
   @@ <<200, 150, 20>> :> 1005770225
   @@ <<300, 150, 20>> :> 1013959480
   @@ <<400, 150, 20>> :> 1019810255
   @@ <<800, 150, 20>> :> 1034046275
   @@ <<900, 150, 20>> :> 1036485009
   @@ <<1600, 150, 20>> :> 1048481023
   @@ <<2000, 150, 20>> :> 1053170716
   @@ <<300, 200, 20>> :> 1008142272
   @@ <<400, 200, 20>> :> 1013959480
   @@ <<800, 200, 20>> :> 1028113827
   @@ <<900, 200, 20>> :> 1030538569
   @@ <<1600, 200, 20>> :> 1042465761
   @@ <<2000, 200, 20>> :> 1047128548
   @@ <<400, 300, 20>> :> 1005770225
   @@ <<800, 300, 20>> :> 1019810255
   @@ <<900, 300, 20>> :> 1022215413
   @@ <<1600, 300, 20>> :> 1034046275
   @@ <<2000, 300, 20>> :> 1038671403
   @@ <<150, 100, 40>> :> 1016350840
   @@ <<200, 100, 40>> :> 1028113827
   @@ <<300, 100, 40>> :> 1044924351
   @@ <<400, 100, 40>> :> 1057018041
   @@ <<800, 100, 40>> :> 1086734863
   @@ <<900, 100, 40>> :> 1091866900
   @@ <<1600, 100, 40>> :> 1117287138
   @@ <<2000, 100, 40>> :> 1127304394
   @@ <<200, 150, 40>> :> 1011573746
   @@ <<300, 150, 40>> :> 1028113827
   @@ <<400, 150, 40>> :> 1040012955
   @@ <<800, 150, 40>> :> 1069251699
   @@ <<900, 150, 40>> :> 1074301173
   @@ <<1600, 150, 40>> :> 1099312456
   @@ <<2000, 150, 40>> :> 1109168557
   @@ <<300, 200, 40>> :> 1016350840
   @@ <<400, 200, 40>> :> 1028113827
   @@ <<800, 200, 40>> :> 1057018041
   @@ <<900, 200, 40>> :> 1062009742
   @@ <<1600, 200, 40>> :> 1086734863
   @@ <<2000, 200, 40>> :> 1096478196
   @@ <<400, 300, 40>> :> 1011573746
   @@ <<800, 300, 40>> :> 1040012955
   @@ <<900, 300, 40>> :> 1044924351
   @@ <<1600, 300, 40>> :> 1069251699
   @@ <<2000, 300, 40>> :> 1078838284
   @@ <<150, 100, 114>> :> 1047307958
   @@ <<200, 100, 114>> :> 1082224645
   @@ <<300, 100, 114>> :> 1133422483
   @@ <<400, 100, 114>> :> 1171210181
   @@ <<800, 100, 114>> :> 1267512522
   @@ <<900, 100, 114>> :> 1284646524
   @@ <<1600, 100, 114>> :> 1371733289
   @@ <<2000, 100, 114>> :> 1407075559
   @@ <<200, 150, 114>> :> 1033339465
   @@ <<300, 150, 114>> :> 1082224645
   @@ <<400, 150, 114>> :> 1118305435
   @@ <<800, 150, 114>> :> 1210257702
   @@ <<900, 150, 114>> :> 1226617743
   @@ <<1600, 150, 114>> :> 1309770711
   @@ <<2000, 150, 114>> :> 1343516536
   @@ <<300, 200, 114>> :> 1047307958
   @@ <<400, 200, 114>> :> 1082224645
   @@ <<800, 200, 114>> :> 1171210181
   @@ <<900, 200, 114>> :> 1187042386
   @@ <<1600, 200, 114>> :> 1267512522
   @@ <<2000, 200, 114>> :> 1300169578
   @@ <<400, 300, 114>> :> 1033339465
   @@ <<800, 300, 114>> :> 1118305435
   @@ <<900, 300, 114>> :> 1133422483
   @@ <<1600, 300, 114>> :> 1210257702
   @@ <<2000, 300, 114>> :> 1241439605

\* The whole part of M ** e, M = current / pickup, for a whole exponent e (in
\* thousandths); a fractional exponent of this model leaves M ** e below 2
Whole(current, pickup, e) ==
    IF e = 1000 THEN current \div pickup
    ELSE IF e = 2000 THEN (current * current) \div (pickup * pickup)
    ELSE 1

\* The decimals M ** e is kept to: as many, up to 9, as its whole part leaves
\* room for
Decimals(current, pickup, e) ==
    IF Whole(current, pickup, e) < 2 THEN 9
    ELSE IF Whole(current, pickup, e) < 20 THEN 8
    ELSE IF Whole(current, pickup, e) < 200 THEN 7
    ELSE 6

\* M ** e where M = current / pickup and e is in thousandths, to
\* Decimals(current, pickup, e) decimals.
Pow(current, pickup, e) ==
    IF e = 0 THEN 10 ^ 9
    ELSE IF e = 1000 THEN ScaledDiv(current, Decimals(current, pickup, e), pickup)
    ELSE IF e = 2000
    THEN ScaledDiv(current * current, Decimals(current, pickup, e), pickup * pickup)
    ELSE FracPow[<<current, pickup, e>>]

----------------------------------------------------------------------------
(* curves.py *)

IEC_CURVES ==
    [IEC_NI  |-> [k |-> 14000,    alpha |-> 20],
     IEC_VI  |-> [k |-> 1350000,  alpha |-> 1000],
     IEC_EI  |-> [k |-> 8000000,  alpha |-> 2000],
     IEC_LTI |-> [k |-> 12000000, alpha |-> 1000],
     IEC_STI |-> [k |-> 5000,     alpha |-> 40]]

IEEE_CURVES ==
    [IEEE_MI |-> [A |-> 5150,    B |-> 20000,  p |-> 114],
     IEEE_VI |-> [A |-> 1961000, B |-> 491000, p |-> 2000],
     IEEE_EI |-> [A |-> 2820000, B |-> 121700, p |-> 2000]]

ANSI_CURVES ==
    [ANSI_ST  |-> [A |-> 2394,   B |-> 16940,  p |-> 20],
     ANSI_LT  |-> [A |-> 595000, B |-> 180000, p |-> 2000],
     ANSI_DEF |-> [A |-> 26630,  B |-> 0,      p |-> 0]]

IEC_61363_CURVES ==
    [IEC_61363_A  |-> [k |-> 5150,     alpha |-> 20],
     IEC_61363_B  |-> [k |-> 1350000,  alpha |-> 1000],
     IEC_61363_C  |-> [k |-> 8000000,  alpha |-> 2000],
     IEC_61363_LT |-> [k |-> 12000000, alpha |-> 1000]]

\* dict.update: the keys of b replace those of a
Update(a, b) == b @@ a

ALL_CURVES ==
    Update(Update(Update(IEC_CURVES, IEEE_CURVES), ANSI_CURVES), IEC_61363_CURVES)

\* The code points of the characters of the registered identifiers
CodePoints ==
    [IEC_NI       |-> <<73, 69, 67, 95, 78, 73>>,
     IEC_VI       |-> <<73, 69, 67, 95, 86, 73>>,
     IEC_EI       |-> <<73, 69, 67, 95, 69, 73>>,
     IEC_LTI      |-> <<73, 69, 67, 95, 76, 84, 73>>,
     IEC_STI      |-> <<73, 69, 67, 95, 83, 84, 73>>,
     IEEE_MI      |-> <<73, 69, 69, 69, 95, 77, 73>>,
     IEEE_VI      |-> <<73, 69, 69, 69, 95, 86, 73>>,
     IEEE_EI      |-> <<73, 69, 69, 69, 95, 69, 73>>,
     ANSI_ST      |-> <<65, 78, 83, 73, 95, 83, 84>>,
     ANSI_LT      |-> <<65, 78, 83, 73, 95, 76, 84>>,
     ANSI_DEF     |-> <<65, 78, 83, 73, 95, 68, 69, 70>>,
     IEC_61363_A  |-> <<73, 69, 67, 95, 54, 49, 51, 54, 51, 95, 65>>,
     IEC_61363_B  |-> <<73, 69, 67, 95, 54, 49, 51, 54, 51, 95, 66>>,
     IEC_61363_C  |-> <<73, 69, 67, 95, 54, 49, 51, 54, 51, 95, 67>>,
     IEC_61363_LT |-> <<73, 69, 67, 95, 54, 49, 51, 54, 51, 95, 76, 84>>]

\* a < b on str: the first differing character decides, a proper prefix is less
StrLess(a, b) ==
    \E p \in 1..(Len(CodePoints[b])) :
        /\ \A q \in 1..(p - 1) : q <= Len(CodePoints[a]) /\ CodePoints[a][q] = CodePoints[b][q]
        /\ \/ p = Len(CodePoints[a]) + 1
           \/ p <= Len(CodePoints[a]) /\ CodePoints[a][p] < CodePoints[b][p]

\* sorted(keys)
SortedKeys(keys) ==
    [i \in 1..Cardinality(keys) |->
        CHOOSE x \in keys : Cardinality({y \in keys : StrLess(y, x)}) = i - 1]

\* sep.join(parts)
join(sep, parts) ==
    [i \in 1..(IF parts = <<>> THEN 0 ELSE 2 * Len(parts) - 1) |->
        IF i % 2 = 1 THEN parts[(i + 1) \div 2] ELSE sep]

\* available, enumerating the IEC 60255 family only
available_iec == join(", ", SortedKeys(DOMAIN IEC_CURVES))

\* available = ', '.join(sorted(ALL_CURVES.keys()))
available == join(", ", SortedKeys(DOMAIN ALL_CURVES))

\* The message of the ValueError of get_curve_params
UnknownCurveMessage(curve_type) ==
    <<"Unknown curve type: ", curve_type, "\nAvailable curves: ">> \o available

\* Some(parameters), or None where the source raises ValueError
get_curve_params(curve_type) ==
    IF curve_type \in DOMAIN ALL_CURVES THEN Some(ALL_CURVES[curve_type]) ELSE None

is_iec_curve(curve_type) ==
    curve_type \in DOMAIN IEC_CURVES \/ curve_type \in DOMAIN IEC_61363_CURVES

\* is_ieee_curve that looks in IEEE_CURVES only
is_ieee_curve_only(curve_type) == curve_type \in DOMAIN IEEE_CURVES

is_ieee_curve(curve_type) ==
    curve_type \in DOMAIN IEEE_CURVES \/ curve_type \in DOMAIN ANSI_CURVES

----------------------------------------------------------------------------
(* The device registry: net.protection, a dict from 'ct', 'cb' and 'relay' *)
(* to the list of the devices of that category.  A device is referred to   *)
(* by its position in its list (index + 1).                                *)

EmptyNet == <<>>

HasKey(n, key) == key \in DOMAIN n

\* Registration that puts the new device at the head of its list
Register_front(n, key, obj) ==
    IF HasKey(n, key) THEN [n EXCEPT ![key] = <<obj>> \o @]
    ELSE (key :> <<obj>>) @@ n

\* if key not in net.protection: net.protection[key] = []; then append
Register(n, key, obj) ==
    IF HasKey(n, key) THEN [n EXCEPT ![key] = Append(@, obj)]
    ELSE (key :> <<obj>>) @@ n

\* len(net.protection[key]) once the key is there
Count(n, key) == IF HasKey(n, key) THEN Len(n[key]) ELSE 0

----------------------------------------------------------------------------
(* ct.py *)

Digits == <<"0", "1", "2", "3", "4", "5", "6", "7", "8", "9">>

IsDigit(c) == \E i \in 1..10 : Digits[i] = c

DigitValue(c) == (CHOOSE i \in 1..10 : Digits[i] = c) - 1

\* str.replace('P', ' ')
ReplaceP(chars) == [i \in 1..Len(chars) |-> IF chars[i] = "P" THEN " " ELSE chars[i]]

\* str.split(): the maximal runs of characters other than blanks
RECURSIVE SplitFrom(_, _, _)
SplitFrom(chars, i, word) ==
    IF i > Len(chars) THEN (IF word = <<>> THEN <<>> ELSE <<word>>)
    ELSE IF chars[i] = " "
    THEN (IF word = <<>> THEN <<>> ELSE <<word>>) \o SplitFrom(chars, i + 1, <<>>)
    ELSE SplitFrom(chars, i + 1, Append(word, chars[i]))

Split(chars) == SplitFrom(chars, 1, <<>>)

\* float(word) for words of digits: Some(value); None where float() raises
RECURSIVE DigitsValue(_, _)
DigitsValue(word, n) ==
    IF n = 0 THEN 0 ELSE 10 * DigitsValue(word, n - 1) + DigitValue(word[n])

ParseFloat(word) ==
    IF word # <<>> /\ \A i \in 1..Len(word) : IsDigit(word[i])
    THEN Some(DigitsValue(word, Len(word)))
    ELSE None

\* CT._parse_iec_class: <<composite_error_pct, alf>>, the defaults on any failure
parse_iec_class(accuracy_class_iec) ==
    LET parts == Split(ReplaceP(accuracy_class_iec)) IN
    IF Len(parts) >= 2 /\ ~IsNone(ParseFloat(parts[1])) /\ ~IsNone(ParseFloat(parts[2]))
    THEN <<Get(ParseFloat(parts[1])), Get(ParseFloat(parts[2]))>>
    ELSE <<5, 20>>

\* CT.__init__: the CT object; ratio = primary_rating / secondary_rating is
\* kept as the fraction it is.
NewCT(n, primary_rating, secondary_rating, accuracy_class_iec, name) ==
    [name |-> name,
     primary_rating |-> primary_rating,
     secondary_rating |-> secondary_rating,
     ratio |-> [num |-> primary_rating, den |-> secondary_rating],
     accuracy_class_iec |-> accuracy_class_iec,
     composite_error_pct |-> parse_iec_class(accuracy_class_iec)[1],
     alf |-> parse_iec_class(accuracy_class_iec)[2],
     index |-> Count(n, "ct")]

add_ct(n, primary_rating, secondary_rating, accuracy_class_iec, name) ==
    Register(n, "ct", NewCT(n, primary_rating, secondary_rating, accuracy_class_iec, name))

\* secondary_current clamped at the accuracy limit
secondary_current_clamped(ct, primary_current) ==
    [ma |-> IF primary_current * ct.ratio.den > ct.secondary_rating * ct.alf * ct.ratio.num
            THEN ct.secondary_rating * ct.alf * 1000
            ELSE (primary_current * 1000 * ct.ratio.den) \div ct.ratio.num,
     warn |-> primary_current * ct.ratio.den > ct.secondary_rating * ct.alf * ct.ratio.num]

\* CT.secondary_current: the value in milliamperes and whether the saturation
\* warning is emitted (i_secondary > secondary_rating * alf)
secondary_current(ct, primary_current) ==
    [ma |-> (primary_current * 1000 * ct.ratio.den) \div ct.ratio.num,
     warn |-> primary_current * ct.ratio.den > ct.secondary_rating * ct.alf * ct.ratio.num]

\* 2 ** e % m, by repeated squaring
RECURSIVE PowMod2(_, _)
PowMod2(e, m) ==
    IF e = 0 THEN 1 % m
    ELSE Only({IF e % 2 = 0 THEN (h * h) % m ELSE (2 * h * h) % m :
               h \in {PowMod2(e \div 2, m)}})

MaxExponent == 12

\* floor(log2(a / b)) of integers a, b > 0
Exponent(a, b) ==
    CHOOSE i \in (-MaxExponent)..MaxExponent :
        IF i >= 0 THEN b * 2 ^ i <= a /\ a < b * 2 ^ (i + 1)
        ELSE b <= a * 2 ^ (-i) /\ a * 2 ^ (-i) < 2 * b

\* The float a / b of integers a, b > 0: the 53-bit significand m, scaled by
\* 2 ** -k, that is nearest to the quotient.  Of m its distance d from the
\* quotient is kept, m * b = a * 2 ** k + d, so the float is a / b exactly
\* when d = 0.  (2 * rem = b does not occur: 2 ** k has more factors 2 than b.)
FloatDiv(a, b) ==
    LET k == 52 - Exponent(a, b)
        rem == (a * PowMod2(k, b)) % b
    IN  [num |-> a, den |-> b, k |-> k,
         d |-> IF 2 * rem < b THEN -rem ELSE b - rem]

\* The float q * q.den of a float q = FloatDiv(a, b): the product is
\* a + d * 2 ** -k, rounded to the nearest float (ties to the even
\* significand), which lies ulps floats above the integer a.  The floats below
\* a power of two are spaced half as far apart as those above it.
FloatMul(q) ==
    LET a == q.num
        j == Exponent(a, 1)
        s == IF q.d < 0 /\ a = 2 ^ j THEN j - 52 + q.k - 1 ELSE j - 52 + q.k
        mag == IF q.d < 0 THEN -q.d ELSE q.d
        n == IF 2 * (mag % 2 ^ s) > 2 ^ s
                \/ (2 * (mag % 2 ^ s) = 2 ^ s /\ (mag \div 2 ^ s) % 2 = 1)
             THEN mag \div 2 ^ s + 1 ELSE mag \div 2 ^ s
    IN  [value |-> a,
         ulps |-> IF q.d = 0 THEN 0 ELSE IF q.d < 0 THEN -n ELSE n]

\* self.ratio, for ratings whose quotient is a whole number
Ratio(ct) == ct.ratio.num \div ct.ratio.den

\* CT.primary_current of a whole number of amperes: the product is exact
primary_current(ct, i_secondary) == i_secondary * Ratio(ct)

\* ct.secondary_current(ct.primary_current(x)), as a float
secondary_of_primary(ct, x) == FloatDiv(primary_current(ct, x), Ratio(ct))

\* ct.primary_current(ct.secondary_current(x)), as a float
primary_of_secondary(ct, x) == FloatMul(FloatDiv(x, Ratio(ct)))

----------------------------------------------------------------------------
(* relay.py: trip evaluation *)

CurveFormula_product(tms, coeff, den, decimals) ==
    Time(tms * (den \div 10 ^ (decimals - 3)))

\* tms * k / den and tms * (A / den), in microseconds; den has the given
\* number of decimals.  A float division by zero raises ZeroDivisionError.
CurveFormula(tms, coeff, den, decimals) ==
    IF den = 0 THEN Raised("ZeroDivisionError")
    ELSE Time(ScaledDiv(tms * coeff, decimals - 1, den))

\* _calculate_curve_time with the curve looked up before the current multiple
\* is tested
calculate_curve_time_lookup_first(current, pickup, curve_type, tms) ==
    IF pickup = 0 THEN Raised("ZeroDivisionError")
    ELSE IF IsNone(get_curve_params(curve_type)) THEN Raised("ValueError")
    ELSE IF current <= pickup THEN Inf
    ELSE LET params == Get(get_curve_params(curve_type)) IN
         IF is_iec_curve(curve_type)
         THEN LET decimals == Decimals(current, pickup, params.alpha) IN
              CurveFormula(tms, params.k,
                           Pow(current, pickup, params.alpha) - 10 ^ decimals,
                           decimals)
         ELSE LET decimals == Decimals(current, pickup, params.p) IN
              CurveFormula(tms, params.A,
                           Pow(current, pickup, params.p)
                               - params.B * 10 ^ (decimals - 6),
                           decimals)

calculate_curve_time(current, pickup, curve_type, tms) ==
    IF pickup = 0 THEN Raised("ZeroDivisionError")
    ELSE IF current <= pickup THEN Inf
    ELSE IF IsNone(get_curve_params(curve_type)) THEN Raised("ValueError")
    ELSE LET params == Get(get_curve_params(curve_type)) IN
         IF is_iec_curve(curve_type)
         THEN LET decimals == Decimals(current, pickup, params.alpha) IN
              CurveFormula(tms, params.k,
                           Pow(current, pickup, params.alpha) - 10 ^ decimals,
                           decimals)
         ELSE IF is_ieee_curve(curve_type)
         THEN LET decimals == Decimals(current, pickup, params.p) IN
              CurveFormula(tms, params.A,
                           Pow(current, pickup, params.p)
                               - params.B * 10 ^ (decimals - 6),
                           decimals)
         ELSE Raised("ValueError")

\* The pair of elements calculate_trip_time reads for a fault type.
InstElement_flag_ignored(relay, fault_type) ==
    IF fault_type = "phase"
    THEN [enabled |-> TRUE, pickup |-> relay.phase_inst_pickup,
          delay |-> relay.phase_inst_delay]
    ELSE [enabled |-> TRUE, pickup |-> relay.ground_inst_pickup,
          delay |-> relay.ground_inst_delay]

InstElement(relay, fault_type) ==
    IF fault_type = "phase"
    THEN [enabled |-> relay.phase_inst_enabled, pickup |-> relay.phase_inst_pickup,
          delay |-> relay.phase_inst_delay]
    ELSE [enabled |-> relay.ground_inst_enabled, pickup |-> relay.ground_inst_pickup,
          delay |-> relay.ground_inst_delay]

TimeElement_phase_only(relay, fault_type) ==
    [enabled |-> IF fault_type = "phase" THEN relay.phase_enabled ELSE relay.ground_enabled,
     pickup |-> IF fault_type = "phase" THEN relay.phase_pickup ELSE relay.ground_pickup,
     curve |-> relay.phase_curve, tms |-> relay.phase_tms]

TimeElement(relay, fault_type) ==
    IF fault_type = "phase"
    THEN [enabled |-> relay.phase_enabled, pickup |-> relay.phase_pickup,
          curve |-> relay.phase_curve, tms |-> relay.phase_tms]
    ELSE [enabled |-> relay.ground_enabled, pickup |-> relay.ground_pickup,
          curve |-> relay.ground_curve, tms |-> relay.ground_tms]

calculate_trip_time_curve_first(relay, fault_current, fault_type) ==
    IF fault_type \notin {"phase", "ground"} THEN NoTrip
    ELSE LET inst == InstElement(relay, fault_type)
             el == TimeElement(relay, fault_type)
         IN  IF el.enabled /\ ~IsNone(el.pickup) /\ fault_current >= Get(el.pickup)
             THEN calculate_curve_time(fault_current, Get(el.pickup), el.curve, el.tms)
             ELSE IF inst.enabled /\ ~IsNone(inst.pickup) /\ fault_current >= Get(inst.pickup)
             THEN Time(inst.delay)
             ELSE NoTrip

\* The current the elements of relay are compared with, were it the whole
\* amperes of the secondary current of the relay's CT
i_primary_secondary(relay, fault_current) ==
    secondary_current(net["ct"][relay.ct], fault_current).ma \div 1000

\* calculate_trip_time: i_primary = fault_current is the current the elements
\* are compared with; i_secondary = self.ct.secondary_current(fault_current) is
\* computed and not used
i_primary(relay, fault_current) == fault_current

\* calculate_trip_time with the ground elements evaluated for every fault
\* type that is not "phase"
calculate_trip_time_else_ground(relay, fault_current, fault_type) ==
    LET ft == IF fault_type = "phase" THEN "phase" ELSE "ground"
        inst == InstElement(relay, ft)
        el == TimeElement(relay, ft)
        I == i_primary(relay, fault_current)
    IN  IF inst.enabled /\ ~IsNone(inst.pickup) /\ I >= Get(inst.pickup)
        THEN Time(inst.delay)
        ELSE IF el.enabled /\ ~IsNone(el.pickup) /\ I >= Get(el.pickup)
        THEN calculate_curve_time(I, Get(el.pickup), el.curve, el.tms)
        ELSE NoTrip

calculate_trip_time(relay, fault_current, fault_type) ==
    IF fault_type \notin {"phase", "ground"} THEN NoTrip
    ELSE LET inst == InstElement(relay, fault_type)
             el == TimeElement(relay, fault_type)
             I == i_primary(relay, fault_current)
         IN  IF inst.enabled /\ ~IsNone(inst.pickup) /\ I >= Get(inst.pickup)
             THEN Time(inst.delay)
             ELSE IF el.enabled /\ ~IsNone(el.pickup) /\ I >= Get(el.pickup)
             THEN calculate_curve_time(I, Get(el.pickup), el.curve, el.tms)
             ELSE NoTrip

\* Relay.__init__: the relay object.  s holds the keyword arguments of the
\* four elements (delays in milliseconds); the delays are stored in seconds.
NewRelay(n, ct, cb, s, name) ==
    [name |-> name, ct |-> ct, cb |-> cb,
     phase_pickup |-> s.phase_pickup,
     phase_curve |-> s.phase_curve,
     phase_tms |-> s.phase_tms,
     phase_enabled |-> s.phase_enabled,
     phase_inst_pickup |-> s.phase_inst_pickup,
     phase_inst_delay |-> s.phase_inst_delay * 1000,
     phase_inst_enabled |-> s.phase_inst_enabled,
     ground_pickup |-> s.ground_pickup,
     ground_curve |-> s.ground_curve,
     ground_tms |-> s.ground_tms,
     ground_enabled |-> s.ground_enabled,
     ground_inst_pickup |-> s.ground_inst_pickup,
     ground_inst_delay |-> s.ground_inst_delay * 1000,
     ground_inst_enabled |-> s.ground_inst_enabled,
     index |-> Count(n, "relay")]

\* Relay.__init__: register the relay, then link the breaker back to it
add_relay(n, ct, cb, s, name) ==
    LET n1 == Register(n, "relay", NewRelay(n, ct, cb, s, name)) IN
    IF IsNone(cb) THEN n1
    ELSE [n1 EXCEPT !["cb"][Get(cb)].relay = Some(Len(n1["relay"]))]

----------------------------------------------------------------------------
(* cb.py *)

\* CircuitBreaker.__init__: explicit milliseconds override the cycle count
\* (60 Hz)
OperatingTime(operating_time_cycles, operating_time_ms) ==
    IF ~IsNone(operating_time_ms) THEN Get(operating_time_ms) * 1000
    ELSE (operating_time_cycles * Scale) \div 60

NewCB(n, relay, interrupting_rating_ka_sym, operating_time_cycles, operating_time_ms, name) ==
    [name |-> name,
     relay |-> relay,
     interrupting_rating_ka_sym |-> interrupting_rating_ka_sym,
     state |-> "closed",
     operating_time |-> OperatingTime(operating_time_cycles, operating_time_ms),
     index |-> Count(n, "cb")]

add_cb(n, relay, interrupting_rating_ka_sym, operating_time_cycles, operating_time_ms, name) ==
    Register(n, "cb", NewCB(n, relay, interrupting_rating_ka_sym,
                            operating_time_cycles, operating_time_ms, name))

total_clearing_time_relay_only(n, cb, fault_current, fault_type) ==
    IF IsNone(cb.relay) THEN NoTrip
    ELSE calculate_trip_time(n["relay"][Get(cb.relay)], fault_current, fault_type)

\* CircuitBreaker.total_clearing_time, for the breaker cb of net n
total_clearing_time(n, cb, fault_current, fault_type) ==
    IF IsNone(cb.relay) THEN NoTrip
    ELSE LET relay_time == calculate_trip_time(n["relay"][Get(cb.relay)],
                                               fault_current, fault_type)
         IN  IF relay_time.kind = "None" THEN NoTrip
             ELSE IF IsError(relay_time) THEN relay_time
             ELSE FAdd(relay_time, Time(cb.operating_time))

\* CircuitBreaker.trip and CircuitBreaker.close
\* trip() that changes the state over
trip_toggle(cb) == [cb EXCEPT !.state = IF @ = "open" THEN "closed" ELSE "open"]

trip(cb) == [cb EXCEPT !.state = "open"]

close(cb) == [cb EXCEPT !.state = "closed"]

\* CircuitBreaker.check_interrupting_capability: the value returned and
\* whether the warning is emitted (fault current and rating in kA)
\* check_interrupting_capability that refuses a fault current equal to the rating
check_interrupting_capability_at_rating(cb, fault_current_ka) ==
    IF fault_current_ka >= cb.interrupting_rating_ka_sym
    THEN [value |-> FALSE, warn |-> TRUE] ELSE [value |-> TRUE, warn |-> FALSE]

check_interrupting_capability(cb, fault_current_ka) ==
    IF fault_current_ka > cb.interrupting_rating_ka_sym
    THEN [value |-> FALSE, warn |-> TRUE]
    ELSE [value |-> TRUE, warn |-> FALSE]

----------------------------------------------------------------------------
(* Table rows: a row is a Python dict, kept as the sequence of its         *)
(* <<key, value>> items in insertion order.  A column key is the relay     *)
(* name and the text after it; a cell is a formatted text.                 *)

Key(name, col) == [name |-> name, col |-> col]

CurrentKey == Key("", "Fault Current (A)")

HasItem(row, key) == \E i \in 1..Len(row) : row[i][1] = key

\* row[key] = value: an existing key keeps its place and takes the new value
DictSet(row, key, value) ==
    IF HasItem(row, key)
    THEN [i \in 1..Len(row) |-> IF row[i][1] = key THEN <<key, value>> ELSE row[i]]
    ELSE Append(row, <<key, value>>)

\* row[key]
DictGet(row, key) == row[CHOOSE i \in 1..Len(row) : row[i][1] = key][2]

\* row[key] = value for each (key, value) of items, in order
RECURSIVE DictSetAll(_, _, _)
DictSetAll(row, items, i) ==
    IF i > Len(items) THEN row
    ELSE Only({DictSetAll(r, items, i + 1) : r \in {DictSet(row, items[i][1], items[i][2])}})

\* f"{value:.4f}", with the element label appended where there is one: the
\* number in 1e-4 s, "inf" or "nan" for the floats that are no number;
\* formatting None raises TypeError.
Format4(value, element) ==
    IF value.kind = "None" THEN Raised("TypeError")
    ELSE [kind |-> "text",
          text |-> IF value.kind = "time" THEN "number" ELSE value.kind,
          n |-> IF value.kind = "time" THEN (value.us + 50) \div 100 ELSE 0,
          element |-> element]

NoTripCell == [kind |-> "text", text |-> "No trip", n |-> 0, element |-> ""]

CurrentCell(I) == [kind |-> "text", text |-> "current", n |-> I, element |-> ""]

Items(seq) == [kind |-> "items", items |-> seq]

\* The cells one relay adds to a row: the items, or the exception raised.
\* relayCell and totalCell are the formatted trip time and clearing time.
RelayItems(relay, tripped, relayCell, totalCell) ==
    IF tripped
    THEN IF ~IsNone(relay.cb)
         THEN IF IsError(relayCell) THEN relayCell
              ELSE IF IsError(totalCell) THEN totalCell
              ELSE Items(<< <<Key(relay.name, "Relay (s)"), relayCell>>,
                            <<Key(relay.name, "Total (s)"), totalCell>> >>)
         ELSE IF IsError(relayCell) THEN relayCell
              ELSE Items(<< <<Key(relay.name, "(s)"), relayCell>> >>)
    ELSE IF ~IsNone(relay.cb)
         THEN Items(<< <<Key(relay.name, "Relay (s)"), NoTripCell>>,
                       <<Key(relay.name, "Total (s)"), NoTripCell>> >>)
         ELSE Items(<< <<Key(relay.name, "(s)"), NoTripCell>> >>)

\* relay.cb.total_clearing_time(I_fault, fault_type), formatted
TotalCell(n, relay, I_fault, fault_type) ==
    LET total_time == total_clearing_time(n, n["cb"][Get(relay.cb)], I_fault, fault_type)
    IN  IF IsError(total_time) THEN total_time ELSE Format4(total_time, "")

----------------------------------------------------------------------------
(* plotting/tcc.py: generate_coordination_table *)

\* The body of the loop over the relays, for one relay
tcc_relay_items(n, relay, I_fault, fault_type) ==
    LET trip_time == calculate_trip_time(relay, I_fault, fault_type) IN
    IF IsError(trip_time) THEN trip_time
    ELSE RelayItems(relay, trip_time.kind # "None",
                    Format4(trip_time, ""),
                    IF trip_time.kind # "None" /\ ~IsNone(relay.cb)
                    THEN TotalCell(n, relay, I_fault, fault_type) ELSE NoTripCell)

\* One row: the dict after the loop over relays, or the exception raised
RECURSIVE tcc_row(_, _, _, _, _, _)
tcc_row(n, relays, I_fault, fault_type, i, row) ==
    IF i > Len(relays) THEN [kind |-> "row", row |-> row]
    ELSE Only({IF IsError(got) THEN got
               ELSE tcc_row(n, relays, I_fault, fault_type, i + 1,
                            DictSetAll(row, got.items, 1)) :
               got \in {tcc_relay_items(n, relays[i], I_fault, fault_type)}})

\* The list of rows, or the exception raised
RECURSIVE tcc_rows(_, _, _, _, _, _)
tcc_rows(n, relays, test_currents, fault_type, i, data) ==
    IF i > Len(test_currents) THEN [kind |-> "DataFrame", data |-> data]
    ELSE Only({IF IsError(got) THEN got
               ELSE tcc_rows(n, relays, test_currents, fault_type, i + 1,
                             Append(data, got.row)) :
               got \in {tcc_row(n, relays, test_currents[i], fault_type, 1,
                                 << <<CurrentKey, CurrentCell(test_currents[i])>> >>)}})

generate_coordination_table_reversed(n, relays, test_currents, fault_type) ==
    tcc_rows(n, relays,
             [i \in 1..Len(test_currents) |-> test_currents[Len(test_currents) + 1 - i]],
             fault_type, 1, <<>>)

generate_coordination_table(n, relays, test_currents, fault_type) ==
    tcc_rows(n, relays, test_currents, fault_type, 1, <<>>)

----------------------------------------------------------------------------
(* analysis/coordination.py *)

\* Python truthiness of a pickup: None and 0 are false
Truthy(pickup) == ~IsNone(pickup) /\ Get(pickup) # 0

\* The label chosen from the pickups alone, the enabled flags not read
element_label_flag_ignored(relay, I_fault, fault_type) ==
    IF fault_type = "phase"
    THEN IF Truthy(relay.phase_inst_pickup) /\ I_fault >= Get(relay.phase_inst_pickup)
         THEN "50" ELSE "51"
    ELSE IF Truthy(relay.ground_inst_pickup) /\ I_fault >= Get(relay.ground_inst_pickup)
         THEN "50N" ELSE "51N"

\* "Determine which element operated"
element_label(relay, I_fault, fault_type) ==
    IF fault_type = "phase"
    THEN IF relay.phase_inst_enabled /\ Truthy(relay.phase_inst_pickup)
              /\ I_fault >= Get(relay.phase_inst_pickup)
         THEN "50" ELSE "51"
    ELSE IF relay.ground_inst_enabled /\ Truthy(relay.ground_inst_pickup)
              /\ I_fault >= Get(relay.ground_inst_pickup)
         THEN "50N" ELSE "51N"

\* The body of the first loop over the relays (the labelled table)
rca_relay_items(n, relay, I_fault, fault_type) ==
    LET trip_time == calculate_trip_time(relay, I_fault, fault_type) IN
    IF IsError(trip_time) THEN trip_time
    ELSE RelayItems(relay, trip_time.kind # "None",
                    Format4(trip_time, element_label(relay, I_fault, fault_type)),
                    IF trip_time.kind # "None" /\ ~IsNone(relay.cb)
                    THEN TotalCell(n, relay, I_fault, fault_type) ELSE NoTripCell)

RECURSIVE rca_row(_, _, _, _, _, _)
rca_row(n, relays, I_fault, fault_type, i, row) ==
    IF i > Len(relays) THEN [kind |-> "row", row |-> row]
    ELSE Only({IF IsError(got) THEN got
               ELSE rca_row(n, relays, I_fault, fault_type, i + 1,
                            DictSetAll(row, got.items, 1)) :
               got \in {rca_relay_items(n, relays[i], I_fault, fault_type)}})

RECURSIVE rca_rows(_, _, _, _, _, _)
rca_rows(n, relays, test_currents, fault_type, i, data) ==
    IF i > Len(test_currents) THEN [kind |-> "DataFrame", data |-> data]
    ELSE Only({IF IsError(got) THEN got
               ELSE rca_rows(n, relays, test_currents, fault_type, i + 1,
                             Append(data, got.row)) :
               got \in {rca_row(n, relays, test_currents[i], fault_type, 1,
                                 << <<CurrentKey, CurrentCell(test_currents[i])>> >>)}})

\* run_coordination_analysis(net, test_currents, fault_type, export_csv=False):
\* None without a relay list, else the labelled table
run_coordination_analysis(n, test_currents, fault_type) ==
    IF ~HasKey(n, "relay") THEN [kind |-> "None"]
    ELSE rca_rows(n, n["relay"], test_currents, fault_type, 1, <<>>)

\* The (relay.name, trip_time) pairs of the relays that return a trip time, in
\* relay order; or the exception raised
RECURSIVE trip_times_of(_, _, _, _, _)
trip_times_of(relays, fault_current, fault_type, i, acc) ==
    IF i > Len(relays) THEN Items(acc)
    ELSE LET trip_time == calculate_trip_time(relays[i], fault_current, fault_type) IN
         IF IsError(trip_time) THEN trip_time
         ELSE trip_times_of(relays, fault_current, fault_type, i + 1,
                            IF trip_time.kind # "None"
                            THEN Append(acc, <<relays[i].name, trip_time>>)
                            ELSE acc)

\* list.sort(key=lambda x: x[1]) is stable: x goes before the first element
\* whose trip time is greater than its own
InsertAfterEqual(sorted, x) ==
    LET later == {i \in 1..Len(sorted) : FLt(x[2], sorted[i][2])}
        at == IF later = {} THEN Len(sorted) + 1
              ELSE CHOOSE i \in later : \A j \in later : i <= j
    IN  SubSeq(sorted, 1, at - 1) \o <<x>> \o SubSeq(sorted, at, Len(sorted))

InsertBeforeEqual(sorted, x) ==
    LET later == {i \in 1..Len(sorted) : ~FLt(sorted[i][2], x[2])}
        at == IF later = {} THEN Len(sorted) + 1
              ELSE CHOOSE i \in later : \A j \in later : i <= j
    IN  SubSeq(sorted, 1, at - 1) \o <<x>> \o SubSeq(sorted, at, Len(sorted))

Insert(sorted, x) == InsertAfterEqual(sorted, x)

RECURSIVE SortByTripTime(_, _)
SortByTripTime(trip_times, n) ==
    IF n = 0 THEN <<>> ELSE Insert(SortByTripTime(trip_times, n - 1), trip_times[n])

\* The margin of entry i to the entry before it
MarginToPrevious(trip_times, i) == FSub(trip_times[i][2], trip_times[i - 1][2])

MarginToPrimary(trip_times, i) == FSub(trip_times[i][2], trip_times[1][2])

Margin(trip_times, i) == MarginToPrevious(trip_times, i)

\* The result entry of position i of the sorted list
selectivity_entry(trip_times, i, min_margin) ==
    IF i = 1
    THEN [relay |-> trip_times[i][1], trip_time |-> trip_times[i][2],
          margin |-> [kind |-> "None", us |-> 0], selective |-> TRUE]
    ELSE [relay |-> trip_times[i][1], trip_time |-> trip_times[i][2],
          margin |-> Margin(trip_times, i),
          selective |-> FGe(Margin(trip_times, i), Time(min_margin))]

check_selectivity(n, fault_current, fault_type, min_margin) ==
    IF ~HasKey(n, "relay") THEN [kind |-> "None"]
    ELSE LET got == trip_times_of(n["relay"], fault_current, fault_type, 1, <<>>) IN
         IF IsError(got) THEN got
         ELSE LET trip_times == SortByTripTime(got.items, Len(got.items)) IN
              [kind |-> "list",
               results |-> [i \in 1..Len(trip_times) |->
                               selectivity_entry(trip_times, i, min_margin)]]

----------------------------------------------------------------------------
(* Inputs of the model *)

Currents == {100, 150, 200, 400, 1600}

FaultTypes == {"phase", "ground", "neutral"}

CurveIds == DOMAIN ALL_CURVES \cup {"CUSTOM"}

\* The settings of one instantaneous + time element pair
ElementPairs ==
    [pickup : {None, Some(150), Some(200)},
     curve : CurveIds,
     tms : {30, 100},
     enabled : BOOLEAN,
     inst_pickup : {None, Some(100), Some(900)},
     inst_delay : {200},
     inst_enabled : BOOLEAN]

\* The constructor's defaults, and a pair that differs from every pair above
OtherPairs ==
    {[pickup |-> None, curve |-> "IEC_NI", tms |-> 40, enabled |-> TRUE,
      inst_pickup |-> None, inst_delay |-> 50, inst_enabled |-> TRUE],
     [pickup |-> Some(100), curve |-> "IEC_VI", tms |-> 50, enabled |-> TRUE,
      inst_pickup |-> Some(400), inst_delay |-> 80, inst_enabled |-> TRUE]}

\* The keyword arguments of Relay.__init__ from a phase and a ground pair
Settings(ph, gr) ==
    [phase_pickup |-> ph.pickup, phase_curve |-> ph.curve, phase_tms |-> ph.tms,
     phase_enabled |-> ph.enabled, phase_inst_pickup |-> ph.inst_pickup,
     phase_inst_delay |-> ph.inst_delay, phase_inst_enabled |-> ph.inst_enabled,
     ground_pickup |-> gr.pickup, ground_curve |-> gr.curve, ground_tms |-> gr.tms,
     ground_enabled |-> gr.enabled, ground_inst_pickup |-> gr.inst_pickup,
     ground_inst_delay |-> gr.inst_delay, ground_inst_enabled |-> gr.inst_enabled]

TripSettings ==
    {Settings(a, b) : a \in ElementPairs, b \in OtherPairs}
        \cup {Settings(b, a) : a \in ElementPairs, b \in OtherPairs}

Class5P20 == <<"5", "P", "2", "0">>

\* add_ct(net, bus, primary_rating=200, secondary_rating=5, name="CT")
DefaultCT(n) == add_ct(n, 200, 5, Class5P20, "CT")

----------------------------------------------------------------------------
(* Trip evaluation of one relay: the relay is constructed with any of the  *)
(* settings above on a fresh network, then evaluated at any current.       *)

InitTrip ==
    /\ \E s \in TripSettings : net = add_relay(DefaultCT(EmptyNet), 1, None, s, "Relay")
    /\ out = [op |-> "none"]

\* relay.calculate_trip_time(fault_current, fault_type)
CalculateTripTime ==
    \E r \in 1..Count(net, "relay"), I \in Currents, ft \in FaultTypes :
        /\ out' = [op |-> "calculate_trip_time", relay |-> r,
                   fault_current |-> I, fault_type |-> ft,
                   result |-> calculate_trip_time(net["relay"][r], I, ft),
                   warn |-> secondary_current(net["ct"][net["relay"][r].ct], I).warn]
        /\ UNCHANGED net

NextTrip == CalculateTripTime

SpecTrip == InitTrip /\ [][NextTrip]_vars

\* The relay and the inputs of the evaluation that out reports
Evaluated == out.op = "calculate_trip_time"
EvRelay == net["relay"][out.relay]
EvPhase == Evaluated /\ out.fault_type = "phase"
EvGround == Evaluated /\ out.fault_type = "ground"

\* The instantaneous element of the evaluated fault type picks up
PhaseInstFires ==
    /\ EvPhase /\ EvRelay.phase_inst_enabled /\ ~IsNone(EvRelay.phase_inst_pickup)
    /\ out.fault_current >= Get(EvRelay.phase_inst_pickup)
GroundInstFires ==
    /\ EvGround /\ EvRelay.ground_inst_enabled /\ ~IsNone(EvRelay.ground_inst_pickup)
    /\ out.fault_current >= Get(EvRelay.ground_inst_pickup)

\* The time element of the evaluated fault type is armed
PhaseTimeArmed == EvPhase /\ EvRelay.phase_enabled /\ ~IsNone(EvRelay.phase_pickup)
GroundTimeArmed == EvGround /\ EvRelay.ground_enabled /\ ~IsNone(EvRelay.ground_pickup)

----------------------------------------------------------------------------
(* The tables written to CSV files: analysis/reports.py,                   *)
(* export_coordination_table, and the export of run_coordination_analysis. *)

\* The dict of one row from the items each relay adds in turn, or the first
\* exception raised
RECURSIVE FoldRow(_, _, _)
FoldRow(gots, i, row) ==
    IF i > Len(gots) THEN [kind |-> "row", row |-> row]
    ELSE Only({IF IsError(got) THEN got
               ELSE FoldRow(gots, i + 1, DictSetAll(row, got.items, 1)) :
               got \in {gots[i]}})

\* pd.DataFrame(data) of the rows built in turn, or the first exception raised
RECURSIVE FoldRows(_, _, _)
FoldRows(rows, i, data) ==
    IF i > Len(rows) THEN [kind |-> "DataFrame", data |-> data]
    ELSE Only({IF IsError(got) THEN got
               ELSE FoldRows(rows, i + 1, Append(data, got.row)) :
               got \in {rows[i]}})

\* The loop body of the labelled table
export_relay_items_labelled(n, relay, I_fault, fault_type) ==
    rca_relay_items(n, relay, I_fault, fault_type)

\* export_coordination_table: the body of the loop over the relays
export_relay_items(n, relay, I_fault, fault_type) ==
    LET trip_time == calculate_trip_time(relay, I_fault, fault_type) IN
    IF IsError(trip_time) THEN trip_time
    ELSE RelayItems(relay, trip_time.kind # "None",
                    Format4(trip_time, ""),
                    IF trip_time.kind # "None" /\ ~IsNone(relay.cb)
                    THEN TotalCell(n, relay, I_fault, fault_type) ELSE NoTripCell)

\* export_coordination_table(net, filename, test_currents, fault_type): the
\* DataFrame written to the file; nothing is written without a relay list
export_coordination_table(n, test_currents, fault_type) ==
    IF ~HasKey(n, "relay") THEN [kind |-> "None"]
    ELSE FoldRows([r \in 1..Len(test_currents) |->
                      FoldRow([p \in 1..Len(n["relay"]) |->
                                  export_relay_items(n, n["relay"][p],
                                                     test_currents[r], fault_type)],
                              1, << <<CurrentKey, CurrentCell(test_currents[r])>> >>)],
                  1, <<>>)

\* run_coordination_analysis, "Create clean version for CSV": the body of the
\* loop over the relays
csv_relay_items(n, relay, I_fault, fault_type) ==
    LET trip_time == calculate_trip_time(relay, I_fault, fault_type) IN
    IF IsError(trip_time) THEN trip_time
    ELSE RelayItems(relay, trip_time.kind # "None",
                    Format4(trip_time, ""),
                    IF trip_time.kind # "None" /\ ~IsNone(relay.cb)
                    THEN TotalCell(n, relay, I_fault, fault_type) ELSE NoTripCell)

\* run_coordination_analysis(net, test_currents, fault_type, export_csv=True):
\* the DataFrame written to the CSV file after the labelled table df is built
csv_data(n, df, test_currents, fault_type) ==
    IF df.kind # "DataFrame" THEN df
    ELSE FoldRows([r \in 1..Len(test_currents) |->
                      FoldRow([p \in 1..Len(n["relay"]) |->
                                  csv_relay_items(n, n["relay"][p],
                                                  test_currents[r], fault_type)],
                              1, << <<CurrentKey, CurrentCell(test_currents[r])>> >>)],
                  1, <<>>)

----------------------------------------------------------------------------

(* Coordination analysis of a configured network.  The network is built    *)
(* feeder by feeder as in examples/transformer_protection.py (breaker,     *)
(* CT, relay), from at most MaxRelays feeders; the analysis functions are  *)
(* then applied to it.                                                     *)

MaxRelays == 3

DefaultMinMargin == 300000

UnsetPair ==
    [pickup |-> None, curve |-> "IEC_NI", tms |-> 40, enabled |-> TRUE,
     inst_pickup |-> None, inst_delay |-> 50, inst_enabled |-> TRUE]

InstOnly(pickup, delay) == [UnsetPair EXCEPT !.inst_pickup = Some(pickup), !.inst_delay = delay]

TimeOnly(pickup, curve, tms) ==
    [UnsetPair EXCEPT !.pickup = Some(pickup), !.curve = curve, !.tms = tms]

\* breaker: "own" (a new breaker, passed to the relay), "shared" (the breaker
\* registered last, if any), "spare" (a new breaker, not passed to the relay),
\* "none"
Feeders ==
    {[name |-> "R1", breaker |-> "own", cycles |-> 3, ms |-> None,
      settings |-> Settings([TimeOnly(150, "IEC_NI", 30) EXCEPT
                                 !.inst_pickup = Some(900)], UnsetPair)],
     [name |-> "Relay", breaker |-> "spare", cycles |-> 5, ms |-> None,
      settings |-> Settings(InstOnly(100, 500), InstOnly(100, 500))],
     [name |-> "R3", breaker |-> "own", cycles |-> 3, ms |-> Some(80),
      settings |-> Settings(InstOnly(100, 900), TimeOnly(200, "IEC_VI", 50))],
     [name |-> "R4", breaker |-> "shared", cycles |-> 3, ms |-> None,
      settings |-> Settings(TimeOnly(200, "IEEE_VI", 100), UnsetPair)],
     [name |-> "R5", breaker |-> "none", cycles |-> 3, ms |-> None,
      settings |-> Settings(InstOnly(100, 800), InstOnly(100, 500))]}

AddFeeder(n, e) ==
    LET n1 == IF e.breaker \in {"own", "spare"}
              THEN add_cb(n, None, 25, e.cycles, e.ms, "CB") ELSE n
        n2 == DefaultCT(n1)
        cb == IF e.breaker = "own" \/ (e.breaker = "shared" /\ Count(n1, "cb") > 0)
              THEN Some(Count(n1, "cb")) ELSE None
    IN  add_relay(n2, Count(n2, "ct"), cb, e.settings, e.name)

RECURSIVE Build(_, _)
Build(feeders, k) == IF k = 0 THEN EmptyNet ELSE AddFeeder(Build(feeders, k - 1), feeders[k])

CoordCurrents == {50, 200, 400}

CoordFaultTypes == {"phase", "ground"}

CurrentLists == {<<200, 400>>, <<400, 50, 400>>}

MinMargins == {DefaultMinMargin, 400000}

\* net.protection['relay'], or no relays
RelayList(n) == IF HasKey(n, "relay") THEN n["relay"] ELSE <<>>

InitCoord ==
    /\ \E k \in 0..MaxRelays : \E feeders \in [1..k -> Feeders] : net = Build(feeders, k)
    /\ out = [op |-> "none"]

\* check_selectivity(net, fault_current, fault_type, min_margin)
CheckSelectivity ==
    \E I \in CoordCurrents, ft \in CoordFaultTypes, mm \in MinMargins :
        /\ out' = [op |-> "check_selectivity", fault_current |-> I, fault_type |-> ft,
                   min_margin |-> mm, result |-> check_selectivity(net, I, ft, mm)]
        /\ UNCHANGED net

\* generate_coordination_table(net.protection['relay'], test_currents, fault_type)
GenerateCoordinationTable ==
    \E cs \in CurrentLists, ft \in CoordFaultTypes :
        /\ out' = [op |-> "generate_coordination_table", test_currents |-> cs,
                   fault_type |-> ft,
                   result |-> generate_coordination_table(net, RelayList(net), cs, ft)]
        /\ UNCHANGED net

\* run_coordination_analysis(net, test_currents, fault_type, export_csv=False)
RunCoordinationAnalysis ==
    \E cs \in CurrentLists, ft \in CoordFaultTypes :
        /\ out' = [op |-> "run_coordination_analysis", test_currents |-> cs,
                   fault_type |-> ft,
                   result |-> run_coordination_analysis(net, cs, ft)]
        /\ UNCHANGED net

\* cb.total_clearing_time(fault_current, fault_type)
\* total_clearing_time that also opens the breaker
TotalClearingTime_tripping ==
    \E c \in 1..Count(net, "cb"), I \in CoordCurrents, ft \in CoordFaultTypes :
        /\ out' = [op |-> "total_clearing_time", cb |-> c, fault_current |-> I,
                   fault_type |-> ft,
                   result |-> total_clearing_time(net, net["cb"][c], I, ft)]
        /\ net' = [net EXCEPT !["cb"][c] = trip(@)]

TotalClearingTime ==
    \E c \in 1..Count(net, "cb"), I \in CoordCurrents, ft \in CoordFaultTypes :
        /\ out' = [op |-> "total_clearing_time", cb |-> c, fault_current |-> I,
                   fault_type |-> ft,
                   result |-> total_clearing_time(net, net["cb"][c], I, ft)]
        /\ UNCHANGED net

\* export_coordination_table(net, filename, test_currents, fault_type): the
\* call returns None, or raises the exception of the row loop and writes no
\* file
ExportCoordinationTable ==
    \E cs \in CurrentLists, ft \in CoordFaultTypes :
        LET csv == export_coordination_table(net, cs, ft) IN
        /\ out' = [op |-> "export_coordination_table", test_currents |-> cs,
                   fault_type |-> ft,
                   result |-> IF IsError(csv) THEN csv ELSE [kind |-> "None"],
                   csv |-> csv]
        /\ UNCHANGED net

\* run_coordination_analysis(net, test_currents, fault_type, export_csv=True)
RunCoordinationAnalysisCsv ==
    \E cs \in CurrentLists, ft \in CoordFaultTypes :
        LET df == run_coordination_analysis(net, cs, ft) IN
        /\ out' = [op |-> "run_coordination_analysis_csv", test_currents |-> cs,
                   fault_type |-> ft,
                   result |-> IF IsError(csv_data(net, df, cs, ft))
                              THEN csv_data(net, df, cs, ft) ELSE df,
                   csv |-> csv_data(net, df, cs, ft)]
        /\ UNCHANGED net

NextCoord ==
    \/ CheckSelectivity
    \/ GenerateCoordinationTable
    \/ RunCoordinationAnalysis
    \/ TotalClearingTime
    \/ ExportCoordinationTable
    \/ RunCoordinationAnalysisCsv

SpecCoord == InitCoord /\ [][NextCoord]_vars

----------------------------------------------------------------------------
(* The life of a network: devices are constructed one by one (at most      *)
(* MaxDevices of them), breakers are tripped and closed, and the           *)
(* evaluation functions are called in between.                             *)

MaxDevices == 4

\* CT(net, bus, primary_rating, secondary_rating, accuracy_class_iec)
CTKinds ==
    {[primary_rating |-> 200, secondary_rating |-> 5, accuracy_class_iec |-> Class5P20],
     [primary_rating |-> 150, secondary_rating |-> 5,
      accuracy_class_iec |-> <<"1", "0", "P", "1", "0">>]}

\* CircuitBreaker(net, bus, interrupting_rating_ka_sym, operating_time_cycles,
\* operating_time_ms)
CBKinds ==
    {[interrupting_rating_ka_sym |-> 25, cycles |-> 3, ms |-> None],
     [interrupting_rating_ka_sym |-> 40, cycles |-> 5, ms |-> Some(80)]}

\* The element settings of the relays constructed
RelayKinds ==
    {Settings([TimeOnly(150, "IEC_NI", 30) EXCEPT !.inst_pickup = Some(900)],
              InstOnly(50, 500))}

FaultKA == {24, 25, 26, 40, 41}

Devices(n) == Count(n, "ct") + Count(n, "cb") + Count(n, "relay")

\* add_ct(net, bus, primary_rating, secondary_rating, accuracy_class_iec)
AddCT ==
    /\ Devices(net) < MaxDevices
    /\ \E k \in CTKinds :
          net' = add_ct(net, k.primary_rating, k.secondary_rating,
                        k.accuracy_class_iec, "CT")
    /\ out' = [op |-> "add_ct"]

\* add_cb(net, bus, interrupting_rating_ka_sym, operating_time_cycles,
\* operating_time_ms)
AddCB ==
    /\ Devices(net) < MaxDevices
    /\ \E k \in CBKinds :
          net' = add_cb(net, None, k.interrupting_rating_ka_sym, k.cycles, k.ms, "CB")
    /\ out' = [op |-> "add_cb"]

\* add_relay(net, ct, cb, ...): ct is a registered CT, cb a registered breaker
\* or None
AddRelay ==
    /\ Devices(net) < MaxDevices
    /\ \E ct \in 1..Count(net, "ct"),
          cb \in {None} \cup {Some(c) : c \in 1..Count(net, "cb")},
          s \in RelayKinds :
          /\ net' = add_relay(net, ct, cb, s, "Relay")
          /\ out' = [op |-> "add_relay", cb |-> cb]

\* cb.trip()
Trip ==
    \E c \in 1..Count(net, "cb") :
        /\ net' = [net EXCEPT !["cb"][c] = trip(@)]
        /\ out' = [op |-> "trip", cb |-> c]

\* cb.close()
Close ==
    \E c \in 1..Count(net, "cb") :
        /\ net' = [net EXCEPT !["cb"][c] = close(@)]
        /\ out' = [op |-> "close", cb |-> c]

\* cb.check_interrupting_capability(fault_current_ka)
CheckInterruptingCapability ==
    \E c \in 1..Count(net, "cb"), ka \in FaultKA :
        /\ out' = [op |-> "check_interrupting_capability", cb |-> c,
                   fault_current_ka |-> ka,
                   result |-> check_interrupting_capability(net["cb"][c], ka)]
        /\ UNCHANGED net

\* get_curve_params(curve_type): the parameters returned, or the message of
\* the ValueError raised
GetCurveParams ==
    \E curve_type \in CurveIds :
        /\ out' = [op |-> "get_curve_params", curve_type |-> curve_type,
                   result |-> get_curve_params(curve_type),
                   message |-> IF IsNone(get_curve_params(curve_type))
                               THEN UnknownCurveMessage(curve_type) ELSE <<>>]
        /\ UNCHANGED net

NextNet ==
    \/ AddCT
    \/ AddCB
    \/ AddRelay
    \/ Trip
    \/ Close
    \/ CheckInterruptingCapability
    \/ CalculateTripTime
    \/ TotalClearingTime
    \/ CheckSelectivity
    \/ GenerateCoordinationTable
    \/ RunCoordinationAnalysis

InitNet == net = EmptyNet /\ out = [op |-> "none"]

SpecNet == InitNet /\ [][NextNet]_vars

----------------------------------------------------------------------------
(* Claims on the trip evaluation (SpecTrip) *)

\* C1. Instantaneous precedence: whenever the instantaneous element of the
\* evaluated fault type is enabled, has a pickup and the fault current is at
\* or above it, the result is that element's delay (the configured
\* milliseconds, in seconds), whatever the time element is set to.
C1_InstantaneousPrecedence ==
    /\ PhaseInstFires => out.result = Time(EvRelay.phase_inst_delay)
    /\ GroundInstFires => out.result = Time(EvRelay.ground_inst_delay)
    /\ Evaluated => /\ EvRelay.phase_inst_delay \in {50000, 80000, 200000}
                    /\ EvRelay.ground_inst_delay \in {50000, 80000, 200000}

\* The instantaneous element fires at 1600 A although the time element, whose
\* pickup (150 A) is below the instantaneous pickup (900 A), has picked up too.
C1_Witness ==
    /\ PhaseInstFires /\ PhaseTimeArmed
    /\ EvRelay.phase_pickup = Some(150) /\ EvRelay.phase_inst_pickup = Some(900)
    /\ out.fault_current = 1600
    /\ out.result = Time(200000)

\* C2. Exact-pickup boundary: with the time element armed and the
\* instantaneous element not firing, a fault current equal to the pickup
\* (M = 1) yields "no trip" (None), as a current below the pickup does.
C2_ExactPickupNoTrip ==
    /\ (PhaseTimeArmed /\ ~PhaseInstFires
            /\ out.fault_current = Get(EvRelay.phase_pickup)) => out.result = NoTrip
    /\ (GroundTimeArmed /\ ~GroundInstFires
            /\ out.fault_current = Get(EvRelay.ground_pickup)) => out.result = NoTrip

\* An element that cannot fire at current I: disabled, or its pickup unset,
\* or its pickup above I
Quiet(enabled, pickup, I) == ~enabled \/ IsNone(pickup) \/ Get(pickup) > I

\* C3. No-trip characterisation: when both elements of the evaluated fault type
\* are disabled, unset, or set above the fault current, the result is None.
C3_NoTrip ==
    /\ (EvPhase
          /\ Quiet(EvRelay.phase_inst_enabled, EvRelay.phase_inst_pickup, out.fault_current)
          /\ Quiet(EvRelay.phase_enabled, EvRelay.phase_pickup, out.fault_current))
        => out.result = NoTrip
    /\ (EvGround
          /\ Quiet(EvRelay.ground_inst_enabled, EvRelay.ground_inst_pickup, out.fault_current)
          /\ Quiet(EvRelay.ground_enabled, EvRelay.ground_pickup, out.fault_current))
        => out.result = NoTrip

\* A disabled instantaneous element whose pickup is exceeded, and an enabled
\* time element whose pickup is unset: no trip.
C3_Witness ==
    /\ EvGround
    /\ ~EvRelay.ground_inst_enabled /\ EvRelay.ground_inst_pickup = Some(100)
    /\ out.fault_current = 400
    /\ EvRelay.ground_enabled /\ IsNone(EvRelay.ground_pickup)
    /\ out.result = NoTrip

\* The formula of the curve's family with the coefficients of its own table
C4_Formula(curve, tms, pickup, I) ==
    IF curve \in DOMAIN IEC_CURVES \cup DOMAIN IEC_61363_CURVES
    THEN LET coef == (IEC_CURVES @@ IEC_61363_CURVES)[curve]
             decimals == Decimals(I, pickup, coef.alpha)
             den == Pow(I, pickup, coef.alpha) - 10 ^ decimals
         IN  IF den > 0 THEN Time(ScaledDiv(tms * coef.k, decimals - 1, den)) ELSE NaN
    ELSE LET coef == (IEEE_CURVES @@ ANSI_CURVES)[curve]
             decimals == Decimals(I, pickup, coef.p)
             den == Pow(I, pickup, coef.p) - coef.B * 10 ^ (decimals - 6)
         IN  IF den > 0 THEN Time(ScaledDiv(tms * coef.A, decimals - 1, den)) ELSE NaN

\* C4. Formula selection: when the time element of the evaluated fault type
\* operates (M > 1, instantaneous element not firing, registered curve), the
\* result is TMS*k/(M^alpha - 1) for an IEC curve and TMS*A/(M^p - B) for an
\* IEEE/ANSI curve, with that element's own curve, pickup and TMS; IEC_NI,
\* 150 A, TMS 0.3 gives about 7.28 s at 200 A and about 2.12 s at 400 A.
C4_FormulaSelection ==
    /\ (PhaseTimeArmed /\ ~PhaseInstFires /\ EvRelay.phase_curve \in DOMAIN ALL_CURVES
            /\ out.fault_current > Get(EvRelay.phase_pickup))
        => /\ out.result = C4_Formula(EvRelay.phase_curve, EvRelay.phase_tms,
                                      Get(EvRelay.phase_pickup), out.fault_current)
           /\ (EvRelay.phase_curve = "IEC_NI" /\ EvRelay.phase_tms = 30
                  /\ EvRelay.phase_pickup = Some(150))
               => /\ out.fault_current = 200 => out.result.us \in 7275000..7285000
                  /\ out.fault_current = 400 => out.result.us \in 2115000..2125000
    /\ (GroundTimeArmed /\ ~GroundInstFires /\ EvRelay.ground_curve \in DOMAIN ALL_CURVES
            /\ out.fault_current > Get(EvRelay.ground_pickup))
        => out.result = C4_Formula(EvRelay.ground_curve, EvRelay.ground_tms,
                                   Get(EvRelay.ground_pickup), out.fault_current)

\* The ground time element (IEEE_VI, its own pickup 150 A and TMS 1.0) operates
\* at 400 A on a relay whose phase element is set differently.
C4_Witness ==
    /\ GroundTimeArmed /\ ~GroundInstFires
    /\ EvRelay.ground_curve = "IEEE_VI" /\ EvRelay.ground_pickup = Some(150)
    /\ EvRelay.ground_tms = 100 /\ EvRelay.phase_curve = "IEC_VI"
    /\ out.fault_current = 400
    /\ out.result.kind = "time"

\* The evaluated fault type's instantaneous element does not fire at current I
InstSilentAt(I) ==
    IF out.fault_type = "phase"
    THEN Quiet(EvRelay.phase_inst_enabled, EvRelay.phase_inst_pickup, I)
    ELSE Quiet(EvRelay.ground_inst_enabled, EvRelay.ground_inst_pickup, I)

\* The armed time element of the evaluated fault type: its curve and pickup
EvCurve == IF out.fault_type = "phase" THEN EvRelay.phase_curve ELSE EvRelay.ground_curve
EvPickup == IF out.fault_type = "phase" THEN Get(EvRelay.phase_pickup)
            ELSE Get(EvRelay.ground_pickup)

\* The evaluation is one of the time element at a current I2 above pickup, and
\* I1 is a lower current above pickup; the instantaneous element fires at neither
Rising(I1) ==
    /\ PhaseTimeArmed \/ GroundTimeArmed
    /\ EvCurve \in DOMAIN ALL_CURVES
    /\ EvPickup < I1 /\ I1 < out.fault_current
    /\ InstSilentAt(I1) /\ InstSilentAt(out.fault_current)

\* C5. Monotonicity: for every registered curve, if pickup < I1 < I2
\* and the instantaneous element fires at neither current, the trip time at I2
\* is strictly below the trip time at I1.
C5_StrictlyDecreasing ==
    \A I1 \in Currents :
        Rising(I1) => FLt(out.result, calculate_trip_time(EvRelay, I1, out.fault_type))

\* The registry as it is: for every registered curve other than ANSI_DEF the
\* trip time at I2 is strictly below the trip time at I1; for ANSI_DEF,
\* registered with p = 0 and B = 0, the two are equal.
C5_DecreasingExceptDefiniteTime ==
    \A I1 \in Currents :
        Rising(I1) =>
            IF EvCurve = "ANSI_DEF"
            THEN out.result = calculate_trip_time(EvRelay, I1, out.fault_type)
            ELSE FLt(out.result, calculate_trip_time(EvRelay, I1, out.fault_type))

\* IEEE_MI at 1600 A against 400 A, pickup 200 A
C5_Witness ==
    /\ EvPhase /\ Rising(400)
    /\ EvCurve = "IEEE_MI" /\ EvPickup = 200 /\ out.fault_current = 1600
    /\ out.result.kind = "time"

----------------------------------------------------------------------------
(* Claims on breakers, selectivity and the tables (SpecCoord) *)

\* C6. Breaker clearing time: a breaker with an associated relay clears in
\* that relay's trip time plus its own operating time whenever the relay
\* returns a time, and returns None whenever the relay returns None; a breaker
\* without a relay returns None; the result is never a number when the relay
\* result is None.
C6_ClearingTime ==
    out.op = "total_clearing_time" =>
        \A cb \in {net["cb"][out.cb]} :
            IF IsNone(cb.relay) THEN out.result = NoTrip
            ELSE \A t \in {calculate_trip_time(net["relay"][Get(cb.relay)],
                                               out.fault_current, out.fault_type)} :
                    /\ cb.operating_time \in {50000, 80000, 83333}
                    /\ t.kind = "None" <=> out.result = NoTrip
                    /\ t.kind = "time" <=> out.result.kind = "time"
                    /\ t.kind = "time" => out.result.us = t.us + cb.operating_time
                    /\ t.kind = "inf" => out.result = Inf

\* The breaker of R1 (3 cycles at 60 Hz, 0.05 s) at 400 A: about 2.12 s of
\* relay time plus 0.05 s.
C6_Witness ==
    /\ out.op = "total_clearing_time"
    /\ ~IsNone(net["cb"][out.cb].relay)
    /\ net["relay"][Get(net["cb"][out.cb].relay)].name = "R1"
    /\ net["cb"][out.cb].operating_time = 50000
    /\ out.fault_current = 400 /\ out.fault_type = "phase"
    /\ out.result.kind = "time" /\ out.result.us \in 2165000..2175000

\* The selectivity check returned a list
Checked == out.op = "check_selectivity" /\ out.result.kind = "list"

\* The trip time of every registered relay at the checked current
CheckedTimes ==
    [p \in 1..Len(net["relay"]) |->
        calculate_trip_time(net["relay"][p], out.fault_current, out.fault_type)]

\* C7. Selectivity ordering: the result list is in non-decreasing trip time,
\* and relays with equal trip times keep their registration order: the entry
\* of a relay stands after exactly the entries of the relays that are faster,
\* or as fast and registered earlier.
C7_StableOrder ==
    Checked =>
        \A res \in {out.result.results}, ts \in {CheckedTimes} :
            /\ \A i \in 1..(Len(res) - 1) : ~FLt(res[i + 1].trip_time, res[i].trip_time)
            /\ \A T \in {{p \in DOMAIN ts : ts[p].kind # "None"}} :
                /\ Len(res) = Cardinality(T)
                /\ \A p \in T :
                     \A rank \in {1 + Cardinality({q \in T : \/ FLt(ts[q], ts[p])
                                                             \/ ts[q] = ts[p] /\ q < p})} :
                        /\ res[rank].relay = net["relay"][p].name
                        /\ res[rank].trip_time = ts[p]

\* R3 (6.75 s) is registered first and comes last; R5 and Relay tie at 0.5 s
\* and stay in their registration order.
C7_Witness ==
    /\ Checked
    /\ out.fault_current = 400 /\ out.fault_type = "ground"
    /\ Len(net["relay"]) = 3
    /\ net["relay"][1].name = "R3" /\ net["relay"][2].name = "R5"
    /\ net["relay"][3].name = "Relay"
    /\ Len(out.result.results) = 3
    /\ out.result.results[1].relay = "R5" /\ out.result.results[2].relay = "Relay"
    /\ out.result.results[1].trip_time = Time(500000)
    /\ out.result.results[2].trip_time = Time(500000)
    /\ out.result.results[3].relay = "R3"
    /\ out.result.results[3].trip_time = Time(6750000)

\* C8. Selectivity margins: the first entry has margin None and is selective
\* (the primary); every later entry's margin is its trip time minus the trip
\* time of the entry just before it, and it is selective exactly when that
\* margin is at least min_margin; 0.5 s then 0.9 s gives 0.4 s, selective
\* under the default 0.3 s.
C8_Margins ==
    Checked =>
        \A res \in {out.result.results} :
            /\ Len(res) >= 1 => /\ res[1].margin = [kind |-> "None", us |-> 0]
                                /\ res[1].selective = TRUE
            /\ \A i \in 2..Len(res) :
                 \A prev \in {res[i - 1].trip_time}, this \in {res[i].trip_time} :
                    /\ (prev.kind = "time" /\ this.kind = "time")
                        => /\ res[i].margin = Time(this.us - prev.us)
                           /\ res[i].selective = (this.us - prev.us >= out.min_margin)
                    /\ (prev.kind = "time" /\ this.kind = "inf")
                        => res[i].margin = Inf /\ res[i].selective = TRUE
                    /\ (prev.kind = "inf" /\ this.kind = "inf")
                        => res[i].margin = NaN /\ res[i].selective = FALSE
                    /\ (prev = Time(500000) /\ this = Time(900000)
                            /\ out.min_margin = DefaultMinMargin)
                        => res[i].margin = Time(400000) /\ res[i].selective = TRUE

\* 0.5 s, 0.8 s and 0.9 s under the default margin: the second entry is at
\* the boundary (0.3 s) and selective, the third is 0.1 s behind the second
\* (0.4 s behind the primary) and not selective.
C8_Witness ==
    /\ Checked
    /\ out.min_margin = DefaultMinMargin
    /\ Len(out.result.results) = 3
    /\ out.result.results[1].trip_time = Time(500000)
    /\ out.result.results[1].margin.kind = "None"
    /\ out.result.results[2].trip_time = Time(800000)
    /\ out.result.results[2].margin = Time(300000)
    /\ out.result.results[2].selective
    /\ out.result.results[3].trip_time = Time(900000)
    /\ out.result.results[3].margin = Time(100000)
    /\ ~out.result.results[3].selective

\* The relay operates at current I: its instantaneous element fires, or its
\* time element is armed and I is above the pickup (M > 1)
Operates(relay, I, fault_type) ==
    IF fault_type = "phase"
    THEN \/ ~Quiet(relay.phase_inst_enabled, relay.phase_inst_pickup, I)
         \/ relay.phase_enabled /\ ~IsNone(relay.phase_pickup)
                /\ I > Get(relay.phase_pickup)
    ELSE \/ ~Quiet(relay.ground_inst_enabled, relay.ground_inst_pickup, I)
         \/ relay.ground_enabled /\ ~IsNone(relay.ground_pickup)
                /\ I > Get(relay.ground_pickup)

\* C9. Selectivity filtering: the result has an entry for a relay exactly
\* when the relay operates at the fault current (a relay at M = 1 does not),
\* and every entry carries a finite trip time.
C9_OnlyOperatingRelays ==
    Checked =>
        \A res \in {out.result.results} :
            /\ Len(res) = Cardinality({p \in 1..Len(net["relay"]) :
                              Operates(net["relay"][p], out.fault_current, out.fault_type)})
            /\ \A i \in 1..Len(res) : res[i].trip_time.kind = "time"

\* A table builder returned a table
Tabled ==
    /\ out.op \in {"generate_coordination_table", "run_coordination_analysis"}
    /\ out.result.kind = "DataFrame"

\* C10. "No trip" is never conflated with a time: every cell of a relay or
\* total column is the "No trip" marker or a finite, strictly positive time,
\* and the cell of a relay (one whose name no other relay bears) is the
\* marker exactly when the relay does not operate at the row's current.
C10_NoTripDistinct ==
    Tabled =>
        \A data \in {out.result.data}, relays \in {RelayList(net)} :
            \A r \in 1..Len(data) : \A j \in 2..Len(data[r]) :
                \A key \in {data[r][j][1]}, cell \in {data[r][j][2]} :
                    /\ cell = NoTripCell \/ (cell.text = "number" /\ cell.n > 0)
                    /\ \A p \in 1..Len(relays) :
                         (/\ relays[p].name = key.name
                          /\ key.col \in {"Relay (s)", "(s)"}
                          /\ \A q \in 1..Len(relays) : relays[q].name = key.name => q = p)
                         => (cell.text = "No trip"
                                <=> ~Operates(relays[p], out.test_currents[r],
                                              out.fault_type))

\* C11. Table rows: a table has one row per supplied fault current, row i
\* begins with the i-th supplied current (order and duplicates kept), rows of
\* equal currents are equal, and building the table again from the same
\* relays and currents gives the same table.
C11_Rows ==
    Tabled =>
        \A data \in {out.result.data} :
            /\ Len(data) = Len(out.test_currents)
            /\ \A r \in 1..Len(data) :
                 /\ data[r][1] = <<CurrentKey, CurrentCell(out.test_currents[r])>>
                 /\ \A r2 \in 1..Len(data) :
                      out.test_currents[r2] = out.test_currents[r] => data[r2] = data[r]
            /\ out.op = "generate_coordination_table"
                => out.result = generate_coordination_table(net, RelayList(net),
                                                            out.test_currents, out.fault_type)
            /\ out.op = "run_coordination_analysis"
                => out.result = run_coordination_analysis(net, out.test_currents,
                                                          out.fault_type)

\* Three rows for 400 A, 50 A, 400 A over two relays or more: the first and
\* the third row are equal and differ from the second.
C11_Witness ==
    /\ Tabled
    /\ out.test_currents = <<400, 50, 400>>
    /\ Len(RelayList(net)) >= 2
    /\ Len(out.result.data) = 3
    /\ out.result.data[1] = out.result.data[3]
    /\ out.result.data[2] # out.result.data[1]
    /\ out.result.data[2][1][2].n = 50

\* C12. Table columns: besides the fault-current column, every row has one
\* column for each relay without a breaker and two for each relay with a
\* breaker, whatever the relays are named (relays may share a name).
C12_Columns ==
    Tabled =>
        \A data \in {out.result.data}, relays \in {RelayList(net)} :
            \A r \in 1..Len(data) :
                Len(data[r]) - 1
                    = Len(relays) + Cardinality({p \in 1..Len(relays) : ~IsNone(relays[p].cb)})

----------------------------------------------------------------------------
(* The operations of single devices: a CT and a breaker of any kind and a  *)
(* relay on them are constructed on a fresh network, then operated.        *)

SaturationCurrents == {1000, 1500, 1501, 1600, 4000, 4001}

RoundTripCurrents == 1..64

\* ct.secondary_current(primary_current)
SecondaryCurrent ==
    \E c \in 1..Count(net, "ct"), I \in SaturationCurrents \cup RoundTripCurrents :
        /\ out' = [op |-> "secondary_current", ct |-> c, primary_current |-> I,
                   result |-> secondary_current(net["ct"][c], I)]
        /\ UNCHANGED net

\* ct.primary_current(secondary_current)
PrimaryCurrent ==
    \E c \in 1..Count(net, "ct"), x \in RoundTripCurrents :
        /\ out' = [op |-> "primary_current", ct |-> c, secondary_current |-> x,
                   result |-> primary_current(net["ct"][c], x)]
        /\ UNCHANGED net

\* ct.secondary_current(ct.primary_current(x))
SecondaryOfPrimary ==
    \E c \in 1..Count(net, "ct"), x \in RoundTripCurrents :
        /\ out' = [op |-> "secondary_of_primary", ct |-> c, x |-> x,
                   result |-> secondary_of_primary(net["ct"][c], x)]
        /\ UNCHANGED net

\* ct.primary_current(ct.secondary_current(x))
PrimaryOfSecondary ==
    \E c \in 1..Count(net, "ct"), x \in RoundTripCurrents :
        /\ out' = [op |-> "primary_of_secondary", ct |-> c, x |-> x,
                   result |-> primary_of_secondary(net["ct"][c], x)]
        /\ UNCHANGED net

NextDevice ==
    \/ GetCurveParams
    \/ SecondaryCurrent
    \/ PrimaryCurrent
    \/ SecondaryOfPrimary
    \/ PrimaryOfSecondary
    \/ Trip
    \/ Close
    \/ CheckInterruptingCapability
    \/ CalculateTripTime

InitDevice ==
    /\ \E ct \in CTKinds, cb \in CBKinds, s \in RelayKinds :
          net = add_relay(
                    add_cb(add_ct(EmptyNet, ct.primary_rating, ct.secondary_rating,
                                  ct.accuracy_class_iec, "CT"),
                           None, cb.interrupting_rating_ka_sym, cb.cycles, cb.ms, "CB"),
                    1, Some(1), s, "Relay")
    /\ out = [op |-> "none"]

SpecDevice == InitDevice /\ [][NextDevice]_vars

\* The time element of the evaluated fault type is armed with a curve
\* identifier that is not registered, and the instantaneous element does not
\* fire
PhaseUnknownCurve ==
    PhaseTimeArmed /\ ~PhaseInstFires /\ EvRelay.phase_curve \notin DOMAIN ALL_CURVES
GroundUnknownCurve ==
    GroundTimeArmed /\ ~GroundInstFires /\ EvRelay.ground_curve \notin DOMAIN ALL_CURVES

\* C14 as stated. A relay with an unregistered curve identifier is constructed,
\* and every evaluation in which that time element picks up
\* (fault_current >= pickup) raises the unknown-curve ValueError.
C14_RaisesAtAndAbovePickup ==
    /\ (PhaseUnknownCurve /\ out.fault_current >= Get(EvRelay.phase_pickup))
           => out.result = Raised("ValueError")
    /\ (GroundUnknownCurve /\ out.fault_current >= Get(EvRelay.ground_pickup))
           => out.result = Raised("ValueError")

\* C14. A relay with an unregistered curve identifier is constructed, and
\* every evaluation of that time element at a current strictly above its
\* pickup raises the unknown-curve ValueError; at a current equal to the pickup
\* the curve is not looked up and no error is raised.
C14_RaisesAbovePickup ==
    /\ PhaseUnknownCurve =>
          /\ out.fault_current > Get(EvRelay.phase_pickup)
                 => out.result = Raised("ValueError")
          /\ out.fault_current = Get(EvRelay.phase_pickup)
                 => out.result # Raised("ValueError")
    /\ GroundUnknownCurve =>
          /\ out.fault_current > Get(EvRelay.ground_pickup)
                 => out.result = Raised("ValueError")
          /\ out.fault_current = Get(EvRelay.ground_pickup)
                 => out.result # Raised("ValueError")

C14_Witness ==
    /\ GroundUnknownCurve
    /\ EvRelay.ground_curve = "CUSTOM"
    /\ EvRelay.ground_pickup = Some(150)
    /\ out.fault_current = 400
    /\ out.result = Raised("ValueError")

----------------------------------------------------------------------------
(* Claims on the operations of single devices (SpecDevice) *)

\* C13. get_curve_params returns the registered coefficients of every
\* identifier of the registry, and for an identifier that is not registered
\* it raises a ValueError whose message names every registered identifier.
C13_Lookup ==
    out.op = "get_curve_params" =>
        /\ \A family \in {IEC_CURVES, IEEE_CURVES, ANSI_CURVES, IEC_61363_CURVES} :
              out.curve_type \in DOMAIN family =>
                  /\ out.result = Some(family[out.curve_type])
                  /\ out.message = <<>>
        /\ out.curve_type \notin (DOMAIN IEC_CURVES \cup DOMAIN IEEE_CURVES
                                  \cup DOMAIN ANSI_CURVES \cup DOMAIN IEC_61363_CURVES) =>
              /\ IsNone(out.result)
              /\ \A id \in DOMAIN IEC_CURVES \cup DOMAIN IEEE_CURVES
                           \cup DOMAIN ANSI_CURVES \cup DOMAIN IEC_61363_CURVES :
                    \E i \in 1..Len(out.message) : out.message[i] = id

C13_Witness ==
    /\ out.op = "get_curve_params"
    /\ out.curve_type = "CUSTOM"
    /\ IsNone(out.result)
    /\ Len(out.message) = 32
    /\ out.message[2] = "CUSTOM"
    /\ out.message[4] = "ANSI_DEF"
    /\ out.message[32] = "IEEE_VI"

\* C17. Interrupting capability: check_interrupting_capability returns False
\* and emits the warning exactly when the fault current is strictly greater
\* than the symmetrical interrupting rating; otherwise, and so at the rating
\* itself, it returns True without a warning; it always returns a boolean.
C17_Capability ==
    out.op = "check_interrupting_capability" =>
        /\ out.result.value \in BOOLEAN
        /\ out.result.value = FALSE
              <=> out.fault_current_ka > net["cb"][out.cb].interrupting_rating_ka_sym
        /\ out.result.warn
              <=> out.fault_current_ka > net["cb"][out.cb].interrupting_rating_ka_sym

C17_Witness ==
    /\ out.op = "check_interrupting_capability"
    /\ out.fault_current_ka = 25
    /\ net["cb"][out.cb].interrupting_rating_ka_sym = 25
    /\ out.result = [value |-> TRUE, warn |-> FALSE]

\* C18. CT round trip: for every x > 0,
\* secondary_current(primary_current(x)) == x and
\* primary_current(secondary_current(x)) == x.
C18_RoundTrip ==
    /\ out.op = "secondary_of_primary" =>
          out.result.d = 0 /\ out.result.num = out.x * out.result.den
    /\ out.op = "primary_of_secondary" =>
          out.result.value = out.x /\ out.result.ulps = 0


\* C19. CT saturation is diagnosed, not modelled: secondary_current returns
\* primary / ratio unclamped, whether or not it warns, and emits the saturation
\* warning exactly when that value is strictly greater than
\* secondary_rating * alf; a trip evaluation whose CT warns still returns its
\* result.
C19_Saturation ==
    /\ out.op = "secondary_current" =>
          \A ct \in {net["ct"][out.ct]} :
              /\ out.result.ma * ct.primary_rating
                     <= out.primary_current * 1000 * ct.secondary_rating
              /\ out.primary_current * 1000 * ct.secondary_rating
                     < (out.result.ma + 1) * ct.primary_rating
              /\ out.result.warn
                     <=> out.primary_current * ct.secondary_rating
                             > ct.secondary_rating * ct.alf * ct.primary_rating
    /\ out.op = "calculate_trip_time" =>
          /\ out.warn <=> secondary_current(net["ct"][EvRelay.ct], out.fault_current).warn
          /\ out.warn =>
                 /\ out.result.kind \in {"None", "inf", "time"}
                 /\ out.result = calculate_trip_time(EvRelay, out.fault_current,
                                                     out.fault_type)

C19_Witness ==
    /\ out.op = "calculate_trip_time"
    /\ out.fault_current = 1600
    /\ out.fault_type = "phase"
    /\ net["ct"][EvRelay.ct].primary_rating = 150
    /\ out.warn
    /\ out.result = Time(50000)

----------------------------------------------------------------------------
(* Claims on the device lifecycle (SpecNet) *)

EvaluationOps ==
    {"calculate_trip_time", "total_clearing_time", "check_interrupting_capability",
     "check_selectivity", "generate_coordination_table", "run_coordination_analysis"}

\* C15. Evaluation is pure: calculate_trip_time, total_clearing_time,
\* check_interrupting_capability, check_selectivity and the table builders
\* leave the registry and every field of every device unchanged; the state of
\* a breaker changes only in trip() and close() of that breaker; and an
\* evaluation repeated with the same configuration and arguments returns the
\* same result.
C15_Pure ==
    [][/\ out'.op \in EvaluationOps => net' = net
       /\ \A c \in 1..Count(net, "cb") :
             net'["cb"][c].state # net["cb"][c].state
                 => out'.op \in {"trip", "close"} /\ out'.cb = c
       /\ (out.op \in EvaluationOps /\ out'.op = out.op
              /\ [out' EXCEPT !.result = 0] = [out EXCEPT !.result = 0])
             => out'.result = out.result
       /\ out'.op = "calculate_trip_time"
             => out'.result = calculate_trip_time(net'["relay"][out'.relay],
                                                  out'.fault_current, out'.fault_type)
       /\ out'.op = "check_interrupting_capability"
             => out'.result = check_interrupting_capability(net'["cb"][out'.cb],
                                                            out'.fault_current_ka)
      ]_vars

C15_Witness ==
    /\ out.op = "total_clearing_time"
    /\ net["cb"][out.cb].state = "open"
    /\ ~IsNone(net["cb"][out.cb].relay)
    /\ net["relay"][Get(net["cb"][out.cb].relay)].cb = Some(out.cb)
    /\ out.result.kind = "time"

\* C16. Breaker state machine: a breaker is constructed "closed"; after trip()
\* its state is "open" and after close() it is "closed", whatever it was
\* before, so the state is always one of the two values, trip() on an open
\* breaker and close() on a closed breaker change nothing, and no other
\* breaker is affected.
C16_StateMachine ==
    [][/\ out'.op = "add_cb" => net'["cb"][Count(net', "cb")].state = "closed"
       /\ \A c \in 1..Count(net', "cb") : net'["cb"][c].state \in {"open", "closed"}
       /\ out'.op = "trip" =>
             /\ net'["cb"][out'.cb].state = "open"
             /\ net["cb"][out'.cb].state = "open" => net' = net
             /\ net' = [net EXCEPT !["cb"][out'.cb].state = "open"]
       /\ out'.op = "close" =>
             /\ net'["cb"][out'.cb].state = "closed"
             /\ net["cb"][out'.cb].state = "closed" => net' = net
             /\ net' = [net EXCEPT !["cb"][out'.cb].state = "closed"]
      ]_vars

C16_Witness ==
    /\ out.op = "close"
    /\ Count(net, "cb") = 2
    /\ net["cb"][out.cb].state = "closed"
    /\ \E c \in 1..Count(net, "cb") : net["cb"][c].state = "open"

\* C20. Breaker-relay association: after any sequence of CT, breaker and relay
\* constructions, every relay that holds a breaker is the relay that breaker
\* refers back to.
C20_MutualLink ==
    \A r \in 1..Count(net, "relay") :
        ~IsNone(net["relay"][r].cb)
            => net["cb"][Get(net["relay"][r].cb)].relay = Some(r)

----------------------------------------------------------------------------
(* Further claims on the trip evaluation (SpecTrip) *)

\* C21. Curve family classification is total and unambiguous: the four family
\* tables have pairwise disjoint keys and their union is the registry, every
\* registered identifier satisfies exactly one of is_iec_curve and
\* is_ieee_curve, and an evaluation with a registered identifier never ends
\* in the ValueError of the final branch of _calculate_curve_time.
C21_Classification ==
    /\ \A a, b \in {IEC_CURVES, IEEE_CURVES, ANSI_CURVES, IEC_61363_CURVES} :
          a # b => DOMAIN a \cap DOMAIN b = {}
    /\ DOMAIN ALL_CURVES = DOMAIN IEC_CURVES \cup DOMAIN IEEE_CURVES
                               \cup DOMAIN ANSI_CURVES \cup DOMAIN IEC_61363_CURVES
    /\ \A id \in DOMAIN ALL_CURVES : is_iec_curve(id) # is_ieee_curve(id)
    /\ (Evaluated /\ EvCurve \in DOMAIN ALL_CURVES) =>
          /\ is_iec_curve(EvCurve) # is_ieee_curve(EvCurve)
          /\ out.result # Raised("ValueError")

C21_Witness ==
    /\ PhaseTimeArmed /\ ~PhaseInstFires
    /\ EvCurve = "ANSI_ST"
    /\ is_ieee_curve(EvCurve) /\ ~is_iec_curve(EvCurve)
    /\ out.fault_current > Get(EvRelay.phase_pickup)
    /\ out.result.kind = "time"

----------------------------------------------------------------------------
(* Further claims on the operations of single devices (SpecDevice) *)

\* C22. Curve coefficient invariant: the parameters registered for an
\* IEC-family curve have k > 0 and alpha > 0, and those registered for an
\* IEEE/ANSI-family curve have A > 0 and p > 0.
C22_Coefficients ==
    (out.op = "get_curve_params" /\ ~IsNone(out.result)) =>
        \A params \in {Get(out.result)} :
            IF is_iec_curve(out.curve_type)
            THEN params.k > 0 /\ params.alpha > 0
            ELSE params.A > 0 /\ params.p > 0

----------------------------------------------------------------------------
(* Further claims on the device lifecycle (SpecNet) *)

\* The element settings of a relay: every field but its name, index, CT and
\* breaker
SettingsOf(relay) ==
    [f \in DOMAIN relay \ {"name", "index", "ct", "cb"} |-> relay[f]]

\* C23. Trip decisions use the primary current only: a relay with the element
\* settings of the evaluated relay returns the same calculate_trip_time
\* result at the same fault current and fault type, whatever its CT; the CT
\* decides only whether the saturation warning is emitted.
C23_PrimaryOnly ==
    Evaluated =>
        /\ \A r \in 1..Count(net, "relay") :
              SettingsOf(net["relay"][r]) = SettingsOf(EvRelay)
                  => calculate_trip_time(net["relay"][r], out.fault_current,
                                         out.fault_type) = out.result
        /\ out.warn = secondary_current(net["ct"][EvRelay.ct], out.fault_current).warn

C23_Witness ==
    /\ Evaluated
    /\ out.fault_current = 1600
    /\ out.warn
    /\ out.result.kind = "time"
    /\ \E r \in 1..Count(net, "relay") :
          /\ SettingsOf(net["relay"][r]) = SettingsOf(EvRelay)
          /\ net["ct"][net["relay"][r].ct].primary_rating
                 # net["ct"][EvRelay.ct].primary_rating
          /\ ~secondary_current(net["ct"][net["relay"][r].ct], out.fault_current).warn
          /\ calculate_trip_time(net["relay"][r], out.fault_current, out.fault_type)
                 = out.result

----------------------------------------------------------------------------
(* Breakers operated by several threads.  A call of trip() or close() takes *)
(* three steps: the assignment of self.state, and the two writes print()    *)
(* makes on sys.stdout, the message and then the newline.  The steps of     *)
(* different threads interleave in any order.  out holds each thread's      *)
(* position, the messages written since the last newline, the line the last *)
(* newline ended, and for every breaker the value assigned to its state     *)
(* last.                                                                    *)

NumThreads == 3

NumBreakers == 2

Threads == 1..NumThreads

Idle == [at |-> "idle"]

\* self.state = "open" and self.state = "closed" of breaker c
AssignState_every(n, c, call) ==
    [n EXCEPT !["cb"] = [b \in 1..Len(@) |->
                            IF call = "trip" THEN trip(@[b]) ELSE close(@[b])]]

AssignState(n, c, call) ==
    [n EXCEPT !["cb"][c] = IF call = "trip" THEN trip(@) ELSE close(@)]

\* Thread t enters trip() or close() of a breaker and assigns its state
ThreadAssign ==
    \E t \in Threads, c \in 1..Count(net, "cb"), call \in {"trip", "close"} :
        /\ out.pc[t] = Idle
        /\ net' = AssignState(net, c, call)
        /\ out' = [out EXCEPT !.pc[t] = [at |-> "print", cb |-> c, call |-> call],
                              !.last[c] = IF call = "trip" THEN "open" ELSE "closed"]

\* f"{self.name} TRIPPED - State: OPEN" and f"{self.name} CLOSED - State: CLOSED"
Message(cb, call) ==
    <<cb.name, IF call = "trip" THEN " TRIPPED - State: OPEN"
               ELSE " CLOSED - State: CLOSED">>

\* print(), first write: thread t writes the message of its call
ThreadPrint ==
    \E t \in Threads :
        /\ out.pc[t] # Idle /\ out.pc[t].at = "print"
        /\ out' = [out EXCEPT !.pc[t] = [@ EXCEPT !.at = "newline"],
                              !.line = Append(@, Message(net["cb"][out.pc[t].cb],
                                                         out.pc[t].call))]
        /\ UNCHANGED net

\* print(), second write: thread t writes the newline, which ends the line
\* of all the messages written since the last newline, and returns
ThreadNewline ==
    \E t \in Threads :
        /\ out.pc[t] # Idle /\ out.pc[t].at = "newline"
        /\ out' = [out EXCEPT !.pc[t] = Idle, !.printed = out.line, !.line = <<>>]
        /\ UNCHANGED net

NextThreads ==
    \/ ThreadAssign
    \/ ThreadPrint
    \/ ThreadNewline

RECURSIVE Breakers(_, _)
Breakers(n, kinds) ==
    IF kinds = <<>> THEN n
    ELSE Breakers(add_cb(n, None, kinds[1].interrupting_rating_ka_sym, kinds[1].cycles,
                         kinds[1].ms, "CB"),
                  Tail(kinds))

InitThreads ==
    /\ \E kinds \in [1..NumBreakers -> CBKinds] : net = Breakers(EmptyNet, kinds)
    /\ out = [op |-> "threads", pc |-> [t \in Threads |-> Idle], line |-> <<>>,
              printed |-> <<>>, last |-> [c \in 1..NumBreakers |-> "closed"]]

SpecThreads == InitThreads /\ [][NextThreads]_vars

\* C24. Concurrent breaker mutation: under every interleaving of the steps of
\* trip() and close() calls of several threads, the state of each breaker is
\* "open" or "closed" and is the value assigned by the call that assigned that
\* breaker last; a call on one breaker does not change another breaker.
C24_LastAssignment ==
    \A c \in 1..Count(net, "cb") :
        /\ net["cb"][c].state \in {"open", "closed"}
        /\ net["cb"][c].state = out.last[c]

C24_Witness ==
    /\ out.pc[1] = [at |-> "newline", cb |-> 1, call |-> "trip"]
    /\ out.pc[2] = [at |-> "print", cb |-> 1, call |-> "close"]
    /\ out.pc[3] = [at |-> "print", cb |-> 2, call |-> "trip"]
    /\ net["cb"][1].state = "closed"
    /\ net["cb"][2].state = "open"
    /\ out.line = <<>>
    /\ out.printed = << <<"CB", " TRIPPED - State: OPEN">>,
                        <<"CB", " CLOSED - State: CLOSED">> >>

----------------------------------------------------------------------------
(* Further claims on the coordination analysis (SpecCoord) *)

\* The relays that hold a breaker and whose name no other relay has
OwnColumns(relays) ==
    {p \in 1..Len(relays) :
        /\ ~IsNone(relays[p].cb)
        /\ \A q \in 1..Len(relays) : relays[q].name = relays[p].name => q = p}

\* C25. Table total matches the relay's own row: in every row and for every
\* relay that has a breaker, the "Total" cell is "No trip" exactly when the
\* "Relay" cell is, and when the relay returns a time the "Total" cell is that
\* time plus the operating time of the relay's breaker.
C25_TotalOfOwnRelay ==
    Tabled => \A data \in {out.result.data}, relays \in {RelayList(net)} :
        \A r \in 1..Len(data), p \in OwnColumns(relays) :
            \A total \in {DictGet(data[r], Key(relays[p].name, "Total (s)"))},
               trip_time \in {calculate_trip_time(relays[p], out.test_currents[r],
                                                  out.fault_type)} :
                /\ total = NoTripCell
                      <=> DictGet(data[r], Key(relays[p].name, "Relay (s)")) = NoTripCell
                /\ trip_time.kind = "time"
                      => total = Format4(Time(trip_time.us
                                                + net["cb"][Get(relays[p].cb)].operating_time),
                                         "")

\* The list of a category holds the same devices in the same order before
\* and after a step; the state of a breaker and its relay back-reference are
\* attributes that change
SameList(key) ==
    /\ Count(net', key) = Count(net, key)
    /\ \A i \in 1..Count(net, key) :
          IF key = "cb"
          THEN [net'[key][i] EXCEPT !.relay = None, !.state = "closed"]
                   = [net[key][i] EXCEPT !.relay = None, !.state = "closed"]
          ELSE net'[key][i] = net[key][i]

\* The list of a category has one more device at its end after a step
Appended(key) ==
    /\ Count(net', key) = Count(net, key) + 1
    /\ \A i \in 1..Count(net, key) : net'[key][i] = net[key][i]

\* C26. Registry invariant: after any sequence of constructions every list
\* holds the devices of its category in construction order, the device at
\* position i (from 0) has index i, and a construction appends one device to
\* the list of its own category and leaves the other lists and their indices
\* as they were.
C26_Registry ==
    [][/\ \A key \in DOMAIN net' :
             \A i \in 1..Len(net'[key]) : net'[key][i].index = i - 1
       /\ out'.op = "add_ct" => Appended("ct") /\ SameList("cb") /\ SameList("relay")
       /\ out'.op = "add_cb" => Appended("cb") /\ SameList("ct") /\ SameList("relay")
       /\ out'.op = "add_relay" => Appended("relay") /\ SameList("ct") /\ SameList("cb")
       /\ out'.op \notin {"add_ct", "add_cb", "add_relay"}
             => SameList("ct") /\ SameList("cb") /\ SameList("relay")
      ]_vars

C26_Witness ==
    /\ out.op = "add_relay"
    /\ Count(net, "ct") = 1 /\ Count(net, "cb") = 1 /\ Count(net, "relay") = 2
    /\ net["relay"][1].index = 0 /\ net["relay"][2].index = 1
    /\ net["relay"][1].cb = Some(1) /\ net["relay"][2].cb = Some(1)
    /\ net["cb"][1].relay = Some(2)

----------------------------------------------------------------------------
(* The labelled table of one relay: a relay with any configuration of its   *)
(* instantaneous and time elements is constructed without a breaker on a    *)
(* fresh network, then run_coordination_analysis is applied.                *)

LabelPairs ==
    [pickup : {None, Some(150)},
     curve : {"IEC_NI"},
     tms : {30},
     enabled : BOOLEAN,
     inst_pickup : {None, Some(0), Some(100), Some(900)},
     inst_delay : {200},
     inst_enabled : BOOLEAN]

InitLabel ==
    /\ \E a \in LabelPairs :
          net = add_relay(DefaultCT(EmptyNet), 1, None, Settings(a, a), "Relay")
    /\ out = [op |-> "none"]

NextLabel == RunCoordinationAnalysis

SpecLabel == InitLabel /\ [][NextLabel]_vars

\* The instantaneous element of relay is the one calculate_trip_time returns
\* the delay of
InstOperates(relay, I, fault_type) ==
    /\ InstElement(relay, fault_type).enabled
    /\ ~IsNone(InstElement(relay, fault_type).pickup)
    /\ I >= Get(InstElement(relay, fault_type).pickup)

\* In every row where the relay trips, its cell is labelled "50"/"50N" exactly
\* when the instantaneous element operates and "51"/"51N" exactly when it
\* does not; restricted to the relays that satisfy Configured
LabelsMatch(Configured(_)) ==
    (Tabled /\ out.op = "run_coordination_analysis") =>
        \A data \in {out.result.data}, relay \in {net["relay"][1]} :
            Configured(relay) =>
                \A r \in 1..Len(data) :
                    \A cell \in {DictGet(data[r], Key(relay.name, "(s)"))},
                       I \in {out.test_currents[r]} :
                        cell # NoTripCell =>
                            /\ cell.element
                                  = IF out.fault_type = "phase"
                                    THEN IF InstOperates(relay, I, "phase")
                                         THEN "50" ELSE "51"
                                    ELSE IF InstOperates(relay, I, "ground")
                                         THEN "50N" ELSE "51N"
                            /\ InstOperates(relay, I, out.fault_type)
                                  <=> calculate_trip_time(relay, I, out.fault_type)
                                          = Time(InstElement(relay, out.fault_type).delay)

AnyPickup(relay) == TRUE

NonZeroInstPickup(relay) ==
    relay.phase_inst_pickup # Some(0) /\ relay.ground_inst_pickup # Some(0)

\* C27. Operating-element label: whenever a relay trips, the label
\* in the table of run_coordination_analysis is "50"/"50N" if and only if
\* calculate_trip_time returned the instantaneous delay and "51"/"51N" if and
\* only if it returned the curve value, for every configuration of the two
\* elements.
C27_LabelEveryConfiguration == LabelsMatch(AnyPickup)

\* The label is right in every configuration in which no instantaneous
\* pickup is 0: the label reads a pickup of 0 as unset, calculate_trip_time
\* reads it as set.
C27_LabelNonZeroPickup == LabelsMatch(NonZeroInstPickup)

C27_Witness ==
    /\ Tabled /\ out.op = "run_coordination_analysis"
    /\ out.fault_type = "phase"
    /\ out.test_currents = <<200, 400>>
    /\ net["relay"][1].phase_inst_pickup = Some(100)
    /\ ~net["relay"][1].phase_inst_enabled
    /\ net["relay"][1].phase_enabled /\ net["relay"][1].phase_pickup = Some(150)
    /\ DictGet(out.result.data[2], Key("Relay", "(s)")).element = "51"
    /\ DictGet(out.result.data[2], Key("Relay", "(s)")).n = 21201

----------------------------------------------------------------------------
(* Further claims on the exported tables (SpecCoord) *)

\* A cell without its element label
Bare(cell) == [cell EXCEPT !.element = ""]

\* A table with the element label of every cell removed
Unlabelled(df) ==
    [df EXCEPT !.data =
        [r \in 1..Len(df.data) |->
            [c \in 1..Len(df.data[r]) |->
                <<df.data[r][c][1], Bare(df.data[r][c][2])>>]]]

\* A cell of the table carries an element label
Labelled(df) ==
    \E r \in 1..Len(df.data) : \E c \in 1..Len(df.data[r]) :
        df.data[r][c][2].element # ""

\* C28. The three table builders agree: for the same registered relay list,
\* the same fault currents and the same fault type, the data written by
\* export_coordination_table and the CSV data written by
\* run_coordination_analysis are the table of generate_coordination_table
\* (same rows, columns and cell values, or the same exception), and the table
\* returned by run_coordination_analysis is that table with the element label
\* appended to cells.
C28_BuildersAgree ==
    (out.op \in {"export_coordination_table", "run_coordination_analysis_csv"}
        /\ HasKey(net, "relay"))
    => \A csv \in {out.csv} :
          /\ csv = generate_coordination_table(net, net["relay"], out.test_currents,
                                               out.fault_type)
          /\ out.op = "run_coordination_analysis_csv"
                => IF csv.kind = "DataFrame" THEN Unlabelled(out.result) = csv
                   ELSE out.result = csv

C28_Witness ==
    /\ out.op = "run_coordination_analysis_csv"
    /\ out.csv.kind = "DataFrame"
    /\ Len(out.test_currents) = 3
    /\ Len(RelayList(net)) >= 2
    /\ \E p \in 1..Len(net["relay"]) : ~IsNone(net["relay"][p].cb)
    /\ Labelled(out.result)
    /\ \E r \in 1..Len(out.csv.data) : \E c \in 1..Len(out.csv.data[r]) :
          out.csv.data[r][c][2] = NoTripCell

----------------------------------------------------------------------------
(* Evaluation with a fault type the relay has no elements for: a network   *)
(* of one to MaxRelays feeders, evaluated and tabulated with fault types   *)
(* other than "phase" and "ground".                                        *)

OtherFaultTypes == {"neutral", "Phase", ""}

InitOther ==
    /\ \E k \in 1..MaxRelays : \E feeders \in [1..k -> Feeders] : net = Build(feeders, k)
    /\ out = [op |-> "none"]

\* relay.calculate_trip_time(fault_current, fault_type)
CalculateTripTimeOther ==
    \E r \in 1..Count(net, "relay"), I \in Currents, ft \in OtherFaultTypes :
        /\ out' = [op |-> "calculate_trip_time", relay |-> r,
                   fault_current |-> I, fault_type |-> ft,
                   result |-> calculate_trip_time(net["relay"][r], I, ft)]
        /\ UNCHANGED net

\* check_selectivity(net, fault_current, fault_type)
CheckSelectivityOther ==
    \E I \in Currents, ft \in OtherFaultTypes :
        /\ out' = [op |-> "check_selectivity", fault_current |-> I, fault_type |-> ft,
                   min_margin |-> DefaultMinMargin,
                   result |-> check_selectivity(net, I, ft, DefaultMinMargin)]
        /\ UNCHANGED net

\* generate_coordination_table(net.protection['relay'], test_currents, fault_type)
GenerateCoordinationTableOther ==
    \E cs \in CurrentLists, ft \in OtherFaultTypes :
        /\ out' = [op |-> "generate_coordination_table", test_currents |-> cs,
                   fault_type |-> ft,
                   result |-> generate_coordination_table(net, RelayList(net), cs, ft)]
        /\ UNCHANGED net

\* run_coordination_analysis(net, test_currents, fault_type, export_csv=False)
RunCoordinationAnalysisOther ==
    \E cs \in CurrentLists, ft \in OtherFaultTypes :
        /\ out' = [op |-> "run_coordination_analysis", test_currents |-> cs,
                   fault_type |-> ft,
                   result |-> run_coordination_analysis(net, cs, ft)]
        /\ UNCHANGED net

NextOther ==
    \/ CalculateTripTimeOther
    \/ CheckSelectivityOther
    \/ GenerateCoordinationTableOther
    \/ RunCoordinationAnalysisOther

SpecOther == InitOther /\ [][NextOther]_vars

\* The relays of the net that return a trip time for a phase or a ground
\* fault of current I
Operating(I) ==
    {p \in 1..Len(net["relay"]) :
        \E ft \in {"phase", "ground"} :
            calculate_trip_time(net["relay"][p], I, ft).kind = "time"}

\* Every cell of the table but the fault current of each row is "No trip"
AllNoTrip(df) ==
    \A r \in 1..Len(df.data) :
        /\ Len(df.data[r]) >= 2
        /\ \A c \in 1..Len(df.data[r]) :
              \/ df.data[r][c][1] = CurrentKey
              \/ df.data[r][c][2] = NoTripCell

\* C29. Unrecognised fault type: calculate_trip_time called with a fault type
\* other than "phase" or "ground" returns "no trip" and raises no error, for
\* every fault current and every relay; check_selectivity then returns a list
\* with no relay in it, and every relay cell of every table is "No trip".
C29_UnrecognisedFaultType ==
    /\ out.op = "calculate_trip_time" => out.result = NoTrip
    /\ out.op = "check_selectivity"
          => out.result = [kind |-> "list", results |-> <<>>]
    /\ out.op \in {"generate_coordination_table", "run_coordination_analysis"}
          => /\ out.result.kind = "DataFrame"
             /\ Len(out.result.data) = Len(out.test_currents)
             /\ AllNoTrip(out.result)

C29_Witness ==
    /\ out.op = "check_selectivity"
    /\ out.fault_type = "neutral"
    /\ out.result = [kind |-> "list", results |-> <<>>]
    /\ Len(net["relay"]) = 2
    /\ Operating(out.fault_current) = {1, 2}
    /\ \E p \in 1..2 : ~IsNone(net["relay"][p].cb)

====
